---------------------------- MODULE Spec2Model ----------------------------
(***************************************************************************)
(* A model of the nova framework's two bookkeeping cores:                  *)
(*   - ActionGroup / ActionProvider (src/src/actionprovider.cpp): groups   *)
(*     of commands, the running cursors and the separator placement;       *)
(*   - ContentView tree (src/src/contentpage.cpp): tab views, split views, *)
(*     Open / Activate / Close / CloseMultiple / Split / Merge.            *)
(* Indices are 0-based as in the C++ code; TLA+ sequences are 1-based, so  *)
(* element i of a QList is s[i + 1].                                       *)
(***************************************************************************)
EXTENDS Integers, Sequences, FiniteSets, TLC

\* ------------------------------------------------------------------ bounds
MaxGroups == 3
MaxActions == 3
MaxPages == 3
MaxTasks == 2
MaxNotifications == 3
MaxPending == 1

Providers == {"menu_file", "menu_edit"}
Groups == 1..MaxGroups
NoProvider == "nullptr"

VARIABLES
    group,      \* ActionGroup objects: group[g] is the fields of group g
    provider,   \* ActionProvider objects: groups, max_index, max_index_important
    notified,   \* per provider: the DisplayAction/DisplaySeparators calls, in order
    result      \* "nullptr" when the last call was a ShowActionGroup that
                \* returned nullptr, "ok" otherwise

\* The workbench and its content views; 0 stands for nullptr and for index -1
\* the code's own -1 is kept.
VARIABLES
    view,           \* ContentView objects: view[v] is the fields of view v
    page,           \* ContentPage objects: state and current_view
    root_view,      \* Workbench::root_view
    current_page,   \* Workbench::current_page
    current_view,   \* Workbench::current_view
    providers,      \* Workbench::providers
    has_old,        \* the static has_old of currentContentPageChanged2
    returned,       \* what the last call returned: "true", "false" or "void"
    round_trip      \* the state before the last Split, kept while the page it
                    \* moved is being closed again

\* The tasks, the progress monitor, the notifier and the main thread's queue.
VARIABLES
    task,                   \* Task objects: state, value, result of Run()
    tasks,                  \* ProgressMonitor::tasks
    progress_view,          \* the arguments of the last UpdateProgressView
    monitor_calls,          \* the calls the monitor has handled, in order
    monitor_notifier,       \* ProgressMonitor::notifier
    events,                 \* the calls queued for the main thread
    notification,           \* Notification objects
    current_notification,   \* Notifier::current_notification
    notification_view,      \* the arguments of the last UpdateNotificationView
    show_calls,             \* the notifications Show was called on, in order
    activated               \* what the last ActivateAction call did

agVars == <<group, provider, notified, result>>
cvVars == <<view, page, root_view, current_page, current_view, providers,
            has_old, returned, round_trip>>
progressVars == <<task, tasks, progress_view, monitor_calls,
                  monitor_notifier, events>>
notifierVars == <<notification, current_notification, notification_view,
                  show_calls, activated>>
vars == <<group, provider, notified, result, view, page, root_view,
          current_page, current_view, providers, has_old, returned,
          round_trip, task, tasks, progress_view, monitor_calls,
          monitor_notifier, events, notification, current_notification,
          notification_view, show_calls, activated>>

\* ----------------------------------------------------- ActionGroup (ctor)
NewActionGroup ==
    [actions |-> <<>>, num_shown |-> 0, has_important_action |-> FALSE,
     important_action_shown |-> FALSE, my_index |-> -1, current_index |-> -1,
     current_index_important |-> -1, provider |-> NoProvider]

NewActionProvider ==
    [groups |-> <<>>, max_index |-> 0, max_index_important |-> 0]

\* Number of important entries among flags[from..to] (1-based, inclusive).
CountImportant(flags, from, to) ==
    Cardinality({i \in from..to : flags[i]})

\* ------------------------------------------------ ShowAllRemaining pieces
\* Mutant of NeedsSeparator: the "not the first content" test is dropped.
NeedsSeparator_Always(me) ==
    (me.num_shown = 0)

NeedsSeparator(me) ==
    (me.num_shown = 0) /\ (me.current_index # 0)

\* Mutant of NeedsSeparatorImportant: the "no important action shown yet"
\* test is dropped.
NeedsSeparatorImportant_Again(me) ==
    me.has_important_action /\ (me.current_index_important # 0)

NeedsSeparatorImportant(me) ==
    me.has_important_action /\ ~me.important_action_shown
        /\ (me.current_index_important # 0)

\* The DisplaySeparators call of lines 61-64 (none when neither is requested).
SeparatorCalls(g, me) ==
    IF NeedsSeparator(me) \/ NeedsSeparatorImportant(me)
    THEN << [kind |-> "sep", group |-> g, k |-> 0,
             regular |-> NeedsSeparator(me),
             index |-> IF NeedsSeparator(me) THEN me.current_index ELSE -1,
             important |-> NeedsSeparatorImportant(me),
             important_index |-> IF NeedsSeparatorImportant(me)
                                 THEN me.current_index_important ELSE -1] >>
    ELSE << >>

\* Mutant of DisplayCalls: the loop starts at 0 instead of num_shown, so the
\* commands already shown are displayed again.
DisplayCalls_FromStart(g, me, ci, cii) ==
    [i \in 1..Len(me.actions) |->
        [kind |-> "act", group |-> g, k |-> i,
         regular |-> TRUE,
         index |-> ci + (i - 1),
         important |-> me.actions[i],
         important_index |->
            IF me.actions[i]
            THEN cii + CountImportant(me.actions, 1, i - 1)
            ELSE -1]]

\* The DisplayAction calls of the loop of lines 66-81; ci and cii are the
\* cursors after the separators were counted.
DisplayCalls(g, me, ci, cii) ==
    [j \in 1..(Len(me.actions) - me.num_shown) |->
        LET i == me.num_shown + j IN
        [kind |-> "act", group |-> g, k |-> i,
         regular |-> TRUE,
         index |-> ci + (j - 1),
         important |-> me.actions[i],
         important_index |->
            IF me.actions[i]
            THEN cii + CountImportant(me.actions, me.num_shown + 1, i - 1)
            ELSE -1]]

\* Lines 87-91: the cursors of the groups behind this one.
UpdateOtherIndexes(G, groups, my_index, counter, counter_important) ==
    [h \in Groups |->
        IF \E i \in (my_index + 1)..(Len(groups) - 1) : groups[i + 1] = h
        THEN [G[h] EXCEPT
                !.current_index = @ + counter,
                !.current_index_important = @ + counter_important]
        ELSE G[h]]

ShowAllRemaining(G, P, N, g) ==
    LET me == G[g]
        p == me.provider
        sep == IF NeedsSeparator(me) THEN 1 ELSE 0
        sep_important == IF NeedsSeparatorImportant(me) THEN 1 ELSE 0
        ci == me.current_index + sep
        cii == me.current_index_important + sep_important
        counter == Len(me.actions) - me.num_shown
        counter_important ==
            CountImportant(me.actions, me.num_shown + 1, Len(me.actions))
        shown == [me EXCEPT
                    !.num_shown = @ + counter,
                    !.current_index = ci + counter,
                    !.current_index_important = cii + counter_important,
                    !.important_action_shown = @ \/ (counter_important > 0)]
        G1 == [G EXCEPT ![g] = shown]
    IN  IF me.actions = << >>
        THEN [group |-> G, provider |-> P, notified |-> N]
        ELSE [group |-> UpdateOtherIndexes(G1, P[p].groups, me.my_index,
                                           counter, counter_important),
              provider |-> [P EXCEPT
                    ![p].max_index = @ + sep + counter,
                    ![p].max_index_important =
                        @ + sep_important + counter_important],
              notified |-> [N EXCEPT
                    ![p] = @ \o SeparatorCalls(g, me)
                             \o DisplayCalls(g, me, ci, cii)]]

\* ------------------------------------------------------------- operations
\* Groups are numbered in the order in which the program first uses them
\* (an untouched group is indistinguishable from one not yet constructed).
InUse(g) ==
    \A h \in 1..(g - 1) : group[h] # NewActionGroup

\* Likewise the providers: the second one is used once the first one is.
ProviderInUse(p) ==
    (p = "menu_file") \/ (provider["menu_file"].groups # << >>)

TotalActions ==
    LET RECURSIVE Sum(_)
        Sum(n) == IF n = 0 THEN 0 ELSE Len(group[n].actions) + Sum(n - 1)
    IN Sum(MaxGroups)

Appended(me, is_important_action) ==
    [me EXCEPT
        !.actions = Append(@, is_important_action),
        !.has_important_action = @ \/ is_important_action]

AddAction(g, is_important_action) ==
    /\ TotalActions < MaxActions
    /\ InUse(g)
    /\ LET G1 == [group EXCEPT ![g] = Appended(@, is_important_action)]
           r == IF G1[g].provider # NoProvider
                THEN ShowAllRemaining(G1, provider, notified, g)
                ELSE [group |-> G1, provider |-> provider, notified |-> notified]
       IN  /\ group' = r.group
           /\ provider' = r.provider
           /\ notified' = r.notified
    /\ result' = "ok"
    /\ UNCHANGED <<cvVars, progressVars, notifierVars>>

Attached(G, P, p, g) ==
    [group |-> [G EXCEPT ![g] = [@ EXCEPT
                    !.provider = p,
                    !.my_index = Len(P[p].groups),
                    !.current_index = P[p].max_index,
                    !.current_index_important = P[p].max_index_important]],
     provider |-> [P EXCEPT ![p].groups = Append(@, g)]]

\* Mutant of ShowActionGroupOn: the "already has a provider" test is dropped.
ShowActionGroupOn_Reattach(G, P, N, p, g) ==
    LET a == Attached(G, P, p, g)
        r == ShowAllRemaining(a.group, a.provider, N, g)
    IN  [group |-> r.group, provider |-> r.provider,
         notified |-> r.notified, result |-> "ok"]

ShowActionGroupOn(G, P, N, p, g) ==
    IF G[g].provider # NoProvider
    THEN [group |-> G, provider |-> P, notified |-> N, result |-> "nullptr"]
    ELSE LET a == Attached(G, P, p, g)
             r == ShowAllRemaining(a.group, a.provider, N, g)
         IN  [group |-> r.group, provider |-> r.provider,
              notified |-> r.notified, result |-> "ok"]

ShowActionGroup(p, g) ==
    LET r == ShowActionGroupOn(group, provider, notified, p, g)
    IN  /\ InUse(g)
        /\ ProviderInUse(p)
        /\ group' = r.group
        /\ provider' = r.provider
        /\ notified' = r.notified
        /\ result' = r.result
        /\ UNCHANGED <<cvVars, progressVars, notifierVars>>

\* ShowAction(action, is_important): a new single-action group, then shown.
ShowAction(p, g, is_important_action) ==
    /\ TotalActions < MaxActions
    /\ group[g] = NewActionGroup
    /\ InUse(g)
    /\ ProviderInUse(p)
    /\ LET G1 == [group EXCEPT ![g] = Appended(@, is_important_action)]
           r == ShowActionGroupOn(G1, provider, notified, p, g)
       IN  /\ group' = r.group
           /\ provider' = r.provider
           /\ notified' = r.notified
           /\ result' = r.result
    /\ UNCHANGED <<cvVars, progressVars, notifierVars>>

\* ------------------------------------------------- what a provider displays
\* MenuActionProvider::DisplayAction / DisplaySeparators: append when the
\* index is at or past the end, else insert before the item at the index.
InsertAt(s, index, x) ==
    IF index >= Len(s)
    THEN Append(s, x)
    ELSE SubSeq(s, 1, index) \o << x >> \o SubSeq(s, index + 1, Len(s))

\* The menu (regular projection) after the calls: items are <<group, k>>, a
\* command being the k-th action of its group and k = 0 a separator.
RECURSIVE RenderRegular(_)
RenderRegular(calls) ==
    IF calls = << >> THEN << >>
    ELSE LET c == calls[Len(calls)]
             before == RenderRegular(SubSeq(calls, 1, Len(calls) - 1))
         IN  IF c.regular THEN InsertAt(before, c.index, <<c.group, c.k>>)
             ELSE before

\* The tool bar (important projection) after the calls.
RECURSIVE RenderImportant(_)
RenderImportant(calls) ==
    IF calls = << >> THEN << >>
    ELSE LET c == calls[Len(calls)]
             before == RenderImportant(SubSeq(calls, 1, Len(calls) - 1))
         IN  IF c.important
             THEN InsertAt(before, c.important_index, <<c.group, c.k>>)
             ELSE before

\* ---------------------------------------------------------------- claims
AttachedTo(p) == {g \in Groups : group[g].provider = p}

ActCalls(p) == {i \in 1..Len(notified[p]) : notified[p][i].kind = "act"}
ImportantActCalls(p) == {i \in ActCalls(p) : notified[p][i].important}

\* The commands added to the groups attached to p.
CommandsOf(p) ==
    {<<g, k>> \in Groups \X (1..MaxActions) :
        g \in AttachedTo(p) /\ k <= Len(group[g].actions)}

DisplayedOnce(p) ==
    /\ Cardinality(ActCalls(p)) = Cardinality(CommandsOf(p))
    /\ \A c \in CommandsOf(p) :
        Cardinality({i \in ActCalls(p) :
            <<notified[p][i].group, notified[p][i].k>> = c}) = 1

\* C1 as stated: every command added to an attached group is displayed
\* exactly once, and along a provider's sequence of DisplayAction calls the
\* position index strictly increases (regular projection, and important
\* projection for the important commands).
C1_CounterIncreasingOverall ==
    \A p \in Providers :
        /\ DisplayedOnce(p)
        /\ \A i, j \in ActCalls(p) :
            i < j => notified[p][i].index < notified[p][j].index
        /\ \A i, j \in ImportantActCalls(p) :
            i < j => notified[p][i].important_index
                        < notified[p][j].important_index

\* C1 (amended): every command added to an attached group is displayed
\* exactly once, and the position index strictly increases along the
\* DisplayAction calls of one and the same group, in both projections.
C1_DisplayedOnceIncreasingPerGroup ==
    \A p \in Providers :
        /\ DisplayedOnce(p)
        /\ \A i, j \in ActCalls(p) :
            (i < j /\ notified[p][i].group = notified[p][j].group)
                => notified[p][i].index < notified[p][j].index
        /\ \A i, j \in ImportantActCalls(p) :
            (i < j /\ notified[p][i].group = notified[p][j].group)
                => notified[p][i].important_index
                        < notified[p][j].important_index

\* An AddAction to an earlier group has inserted a command below the
\* commands of a later group.
C1_Witness ==
    \E p \in Providers : \E i, j \in ActCalls(p) :
        /\ i < j
        /\ notified[p][i].group # notified[p][j].group
        /\ notified[p][j].index < notified[p][i].index
        /\ \E h \in ActCalls(p) :
            h < i /\ notified[p][h].group = notified[p][j].group

\* The first DisplayAction call of group g at provider p (0 when none), and
\* the first one of an important command.
FirstCall(p, g, S) ==
    IF \E i \in S : notified[p][i].group = g
    THEN CHOOSE i \in S :
            /\ notified[p][i].group = g
            /\ \A j \in S : notified[p][j].group = g => i <= j
    ELSE 0

\* Group g is not the first content of the projection when its first
\* command is displayed: a group attached before it has displayed there.
NotFirstContent(p, g, S) ==
    \E i \in S :
        /\ i < FirstCall(p, g, S)
        /\ group[notified[p][i].group].my_index < group[g].my_index

Commands(items) == {i \in 1..Len(items) : items[i][2] # 0}

Separated(items) ==
    \A i \in 1..(Len(items) - 1) :
        (i \in Commands(items) /\ (i + 1) \in Commands(items))
            => items[i][1] = items[i + 1][1]

\* C3: in the displayed menu and in the displayed tool bar, two commands of
\* different groups are never adjacent: a separator lies between them.
C3_GroupsSeparated ==
    \A p \in Providers :
        /\ Separated(RenderRegular(notified[p]))
        /\ Separated(RenderImportant(notified[p]))

\* The commands of the groups gs (in this order), each group's in add order;
\* with onlyImportant, the important ones alone.
RECURSIVE Expected(_, _)
Expected(gs, onlyImportant) ==
    IF gs = << >> THEN << >>
    ELSE LET g == gs[1]
             all == [k \in 1..Len(group[g].actions) |-> <<g, k>>]
         IN  SelectSeq(all, LAMBDA c :
                    ~onlyImportant \/ group[g].actions[c[2]])
                \o Expected(Tail(gs), onlyImportant)

\* C4: the displayed menu lists the groups in the order they were attached
\* and each group's commands in the order they were added; the tool bar
\* lists the important commands in the same order.
C4_DisplayOrder ==
    \A p \in Providers :
        /\ SelectSeq(RenderRegular(notified[p]), LAMBDA x : x[2] # 0)
                = Expected(provider[p].groups, FALSE)
        /\ SelectSeq(RenderImportant(notified[p]), LAMBDA x : x[2] # 0)
                = Expected(provider[p].groups, TRUE)

\* C5: in every reachable state, ShowActionGroup of a group that already has
\* a provider, on that provider or on the other one, returns null and leaves
\* the groups (provider, index, cursors), the providers (group lists,
\* running counters) and what is displayed as they are.
C5_DoubleAttachNoEffect ==
    \A p \in Providers, g \in Groups :
        group[g].provider # NoProvider
            => ShowActionGroupOn(group, provider, notified, p, g)
                = [group |-> group, provider |-> provider,
                   notified |-> notified, result |-> "nullptr"]

\* A group attached to one provider was offered to a provider again while
\* both providers hold groups.
C5_Witness ==
    /\ result = "nullptr"
    /\ \A p \in Providers : provider[p].groups # << >>
    /\ \E p \in Providers : notified[p] # << >>

\* The slots a provider was asked to fill in a projection: commands and
\* separators.
SlotsEmitted(p, important) ==
    Cardinality({i \in 1..Len(notified[p]) :
        IF important THEN notified[p][i].important
        ELSE notified[p][i].regular})

\* The position right after the last item of group g in the displayed items
\* (0 when the group has none).
PositionAfterLast(items, g) ==
    IF \E i \in 1..Len(items) : items[i][1] = g
    THEN CHOOSE i \in 1..Len(items) :
            /\ items[i][1] = g
            /\ \A j \in 1..Len(items) : items[j][1] = g => j <= i
    ELSE 0

\* C26: after every ShowAllRemaining, max_index and max_index_important of a
\* provider are the numbers of regular and of important slots it was asked
\* to fill (commands and separators), and for every attached group that has
\* displayed a command current_index is the position right after its last
\* item in the menu, and current_index_important, once it has displayed an
\* important command, the position right after its last item in the tool
\* bar: the next AddAction inserts right behind the group's last item.
C26_CursorsStayCorrect ==
    \A p \in Providers :
        /\ provider[p].max_index = SlotsEmitted(p, FALSE)
        /\ provider[p].max_index_important = SlotsEmitted(p, TRUE)
        /\ \A g \in AttachedTo(p) :
            /\ group[g].num_shown > 0 =>
                    group[g].current_index
                        = PositionAfterLast(RenderRegular(notified[p]), g)
            /\ group[g].important_action_shown =>
                    group[g].current_index_important
                        = PositionAfterLast(RenderImportant(notified[p]), g)

\* The calls that AddAction(action, is_important_action) on the attached
\* group g adds to those of its provider.
CallsOfAddAction(g, is_important_action) ==
    LET r == ShowAllRemaining(
                [group EXCEPT ![g] = Appended(@, is_important_action)],
                provider, notified, g)
        p == group[g].provider
    IN  SubSeq(r.notified[p], Len(notified[p]) + 1, Len(r.notified[p]))

\* A group attached before g at its provider has displayed an important
\* command.
ImportantBefore(g) ==
    LET p == group[g].provider
    IN  \E i \in ImportantActCalls(p) :
            group[notified[p][i].group].my_index < group[g].my_index

\* C27: when an attached group that has displayed commands, none of them
\* important, gets its first important command while a group before it has
\* displayed an important command, AddAction makes one DisplaySeparators
\* call, for the important projection alone and at the group's important
\* cursor, and then displays the command behind it; once a group has
\* displayed an important command, AddAction makes no DisplaySeparators call
\* for it, and the calls hold one important separator of the group at most.
C27_ImportantSeparatorOnce ==
    \A g \in Groups :
        group[g].provider # NoProvider =>
            LET me == group[g]
                calls == notified[me.provider]
            IN  /\ (me.num_shown > 0 /\ ~me.has_important_action
                        /\ ImportantBefore(g)) =>
                    CallsOfAddAction(g, TRUE) =
                        << [kind |-> "sep", group |-> g, k |-> 0,
                            regular |-> FALSE, index |-> -1,
                            important |-> TRUE,
                            important_index |-> me.current_index_important],
                           [kind |-> "act", group |-> g,
                            k |-> Len(me.actions) + 1,
                            regular |-> TRUE, index |-> me.current_index,
                            important |-> TRUE,
                            important_index |->
                                me.current_index_important + 1] >>
                /\ me.important_action_shown =>
                    \A is_important_action \in BOOLEAN :
                        LET added == CallsOfAddAction(g, is_important_action)
                        IN  /\ Len(added) = 1
                            /\ added[1].kind = "act"
                /\ Cardinality({i \in 1..Len(calls) :
                        /\ calls[i].kind = "sep"
                        /\ calls[i].group = g
                        /\ calls[i].important}) <= 1

\* A group that had displayed a command that is not important has got its
\* first important command behind a separator of the important projection
\* alone.
C27_Witness ==
    \E p \in Providers : \E i, j \in 1..Len(notified[p]) :
        LET calls == notified[p] IN
        /\ i < j
        /\ j + 1 <= Len(calls)
        /\ calls[i].kind = "act" /\ ~calls[i].important
        /\ calls[j].kind = "sep" /\ calls[j].group = calls[i].group
        /\ ~calls[j].regular /\ calls[j].important
        /\ calls[j + 1].kind = "act" /\ calls[j + 1].group = calls[i].group
        /\ calls[j + 1].important

InitGroups ==
    /\ group = [g \in Groups |-> NewActionGroup]
    /\ provider = [p \in Providers |-> NewActionProvider]
    /\ notified = [p \in Providers |-> << >>]
    /\ result = "ok"

\* ================================================================ content views
Pages == 1..MaxPages
\* A view is constructed by a new root (one Open) or by a Split (two views),
\* and every tab view but the last consumes a page: 2 * MaxPages - 1 in all.
ViewIds == 1..(2 * MaxPages - 1)
NoView == 0
NoPage == 0

\* Qt::Orientation
Orientations == {"Horizontal", "Vertical"}

UnusedView ==
    [kind |-> "unused", parent_view |-> NoView, content_pages |-> << >>,
     current_index |-> -1, view_1 |-> NoView, view_2 |-> NoView,
     orientation |-> "none"]

NewContentTabView(parent_view) ==
    [UnusedView EXCEPT !.kind = "tab", !.parent_view = parent_view]

NewContentSplitView(view_1, view_2, orientation, parent_view) ==
    [UnusedView EXCEPT !.kind = "split", !.parent_view = parent_view,
                       !.view_1 = view_1, !.view_2 = view_2,
                       !.orientation = orientation]

NewContentPage == [state |-> "new", current_view |-> NoView]

\* The providers the Workbench constructor registers: the workbench itself,
\* the tool bar actions, the tool window actions, the settings page actions.
RegisteredProviders ==
    << <<"provider", "workbench">>, <<"provider", "tool_bar_actions">>,
       <<"provider", "tool_window_actions">>,
       <<"provider", "settings_page_actions">> >>

\* The workbench seen as one value, which the operations below transform.
Workbench ==
    [view |-> view, page |-> page, root_view |-> root_view,
     current_page |-> current_page, current_view |-> current_view,
     providers |-> providers, has_old |-> has_old, deleted_later |-> {},
     asked |-> << >>]

\* new ...View: the next object never constructed before.
NewViewId(W) ==
    CHOOSE v \in ViewIds :
        /\ W.view[v].kind = "unused"
        /\ \A u \in ViewIds : W.view[u].kind = "unused" => v <= u

\* QList::indexOf, 0-based, -1 when absent.
IndexOf(list, x) ==
    IF \E i \in 1..Len(list) : list[i] = x
    THEN (CHOOSE i \in 1..Len(list) : list[i] = x) - 1
    ELSE -1

RemoveAt(list, index) ==
    SubSeq(list, 1, index) \o SubSeq(list, index + 2, Len(list))

\* Mutant of currentContentPageChanged2: the page that was current stays in
\* the provider list.
currentContentPageChanged2_KeepsOld(W, pg, v) ==
    IF v = NoView
    THEN [W EXCEPT !.root_view = NoView, !.has_old = FALSE,
                   !.current_page = pg, !.current_view = v]
    ELSE [W EXCEPT !.providers = << <<"page", pg>> >> \o @,
                   !.has_old = TRUE,
                   !.current_page = pg, !.current_view = v]

\* Workbench::currentContentPageChanged2, the slot of currentContentPageChanged.
currentContentPageChanged2(W, pg, v) ==
    LET kept == IF W.has_old THEN Tail(W.providers) ELSE W.providers
    IN  IF v = NoView
        THEN [W EXCEPT !.providers = kept, !.root_view = NoView,
                       !.has_old = FALSE,
                       !.current_page = pg, !.current_view = v]
        ELSE [W EXCEPT !.providers = << <<"page", pg>> >> \o kept,
                       !.has_old = TRUE,
                       !.current_page = pg, !.current_view = v]

\* ContentTabView::Activate(int): both branches end with the tab current and
\* the signal emitted (setCurrentIndex re-enters through currentChanged).
Activate(W, v, index) ==
    IF (index >= 0) /\ (index < Len(W.view[v].content_pages))
    THEN currentContentPageChanged2(
            [W EXCEPT !.view[v].current_index = index],
            W.view[v].content_pages[index + 1], v)
    ELSE W

\* Mutant of GetCurrentPage: the first tab instead of the current one.
GetCurrentPage_First(W, v) ==
    W.view[v].content_pages[1]

\* ContentTabView::get_current_page
GetCurrentPage(W, v) ==
    W.view[v].content_pages[W.view[v].current_index + 1]

\* ContentPage::Activate
ContentPageActivate(W, pg) ==
    LET v == W.page[pg].current_view
    IN  IF v # NoView
        THEN Activate(W, v, IndexOf(W.view[v].content_pages, pg))
        ELSE W

\* QTabWidget::removeTab with content_pages.removeAt: the tab right of a
\* removed current tab becomes current, else the last one; -1 when empty.
RemoveTab(tv, index) ==
    LET left == Len(tv.content_pages) - 1
        cur == tv.current_index
    IN  [tv EXCEPT
            !.content_pages = RemoveAt(@, index),
            !.current_index =
                IF index = cur
                THEN (IF index >= left THEN left - 1 ELSE index)
                ELSE IF index < cur THEN cur - 1 ELSE cur]

\* Workbench::RootSplitMergeHelper: the root changes; with no root left no
\* page is current any more.
RootSplitMergeHelper(W, new_root) ==
    IF new_root = NoView
    THEN currentContentPageChanged2([W EXCEPT !.root_view = NoView],
                                    NoPage, NoView)
    ELSE [W EXCEPT !.root_view = new_root]

\* Mutant of Replace: the slot of old_view is not looked up.
Replace_FirstSlot(W, s, old_view, new_view) ==
    [W EXCEPT !.view[s].view_1 = new_view]

\* ContentSplitView::Replace
Replace(W, s, old_view, new_view) ==
    IF W.view[s].view_1 = old_view
    THEN [W EXCEPT !.view[s].view_1 = new_view]
    ELSE [W EXCEPT !.view[s].view_2 = new_view]

\* The tab view reached from v through view_1 (the loop of Merge).
RECURSIVE FirstTabView(_, _)
FirstTabView(W, v) ==
    IF W.view[v].kind = "split" THEN FirstTabView(W, W.view[v].view_1) ELSE v

\* Mutant of Merge: no page of the surviving view is activated.
Merge_NoActivate(W, s, victim_view) ==
    LET other_view == IF W.view[s].view_1 = victim_view
                      THEN W.view[s].view_2 ELSE W.view[s].view_1
        parent_view == W.view[s].parent_view
        W1 == IF parent_view # NoView
              THEN Replace(W, parent_view, s, other_view)
              ELSE RootSplitMergeHelper(W, other_view)
        W2 == [W1 EXCEPT !.view[other_view].parent_view = parent_view]
    IN  [W2 EXCEPT !.deleted_later = @ \cup {s}]

\* Mutant of Merge: the surviving view keeps the split view as its parent.
Merge_KeepsParent(W, s, victim_view) ==
    LET other_view == IF W.view[s].view_1 = victim_view
                      THEN W.view[s].view_2 ELSE W.view[s].view_1
        parent_view == W.view[s].parent_view
        W1 == IF parent_view # NoView
              THEN Replace(W, parent_view, s, other_view)
              ELSE RootSplitMergeHelper(W, other_view)
        current == FirstTabView(W1, other_view)
        W3 == ContentPageActivate(W1, GetCurrentPage(W1, current))
    IN  [W3 EXCEPT !.deleted_later = @ \cup {s}]

\* ContentSplitView::Merge
Merge(W, s, victim_view) ==
    LET other_view == IF W.view[s].view_1 = victim_view
                      THEN W.view[s].view_2 ELSE W.view[s].view_1
        parent_view == W.view[s].parent_view
        W1 == IF parent_view # NoView
              THEN Replace(W, parent_view, s, other_view)
              ELSE RootSplitMergeHelper(W, other_view)
        W2 == [W1 EXCEPT !.view[other_view].parent_view = parent_view]
        current == FirstTabView(W2, other_view)
        W3 == ContentPageActivate(W2, GetCurrentPage(W2, current))
    IN  [W3 EXCEPT !.deleted_later = @ \cup {s}]

\* Mutant of CloseIndex: the answer of CanClose is not looked at.
CloseIndex_IgnoresVeto(W, v, index, can_close) ==
    IF (index < 0) \/ (index >= Len(W.view[v].content_pages))
    THEN [wb |-> W, ok |-> FALSE]
    ELSE
    LET W1 == Activate(W, v, index)
        pg == W1.view[v].content_pages[index + 1]
        W2 == [W1 EXCEPT
                !.view[v] = RemoveTab(@, index),
                !.page[pg] = [state |-> "closed", current_view |-> NoView]]
        W3 == IF W2.view[v].parent_view # NoView
              THEN Merge(W2, W2.view[v].parent_view, v)
              ELSE RootSplitMergeHelper(W2, NoView)
    IN  IF Len(W2.view[v].content_pages) = 0
        THEN [wb |-> [W3 EXCEPT !.deleted_later = @ \cup {v}], ok |-> TRUE]
        ELSE [wb |-> Activate(W2, v, W2.view[v].current_index), ok |-> TRUE]

\* Mutant of CloseIndex: CanClose is asked first and a page that refuses is
\* not activated.
CloseIndex_AsksFirst(W, v, index, can_close) ==
    IF (index < 0) \/ (index >= Len(W.view[v].content_pages))
    THEN [wb |-> W, ok |-> FALSE]
    ELSE
    LET pg == W.view[v].content_pages[index + 1]
        W0 == [W EXCEPT !.asked = Append(@, pg)]
        W1 == Activate(W0, v, index)
        W2 == [W1 EXCEPT
                !.view[v] = RemoveTab(@, index),
                !.page[pg] = [state |-> "closed", current_view |-> NoView]]
        W3 == IF W2.view[v].parent_view # NoView
              THEN Merge(W2, W2.view[v].parent_view, v)
              ELSE RootSplitMergeHelper(W2, NoView)
    IN  IF ~can_close
        THEN [wb |-> W0, ok |-> FALSE]
        ELSE IF Len(W2.view[v].content_pages) = 0
        THEN [wb |-> [W3 EXCEPT !.deleted_later = @ \cup {v}], ok |-> TRUE]
        ELSE [wb |-> Activate(W2, v, W2.view[v].current_index), ok |-> TRUE]

\* ContentTabView::Close(int); can_close is what the page's CanClose returns,
\* and asked lists the pages whose CanClose has been called.
CloseIndex(W, v, index, can_close) ==
    IF (index < 0) \/ (index >= Len(W.view[v].content_pages))
    THEN [wb |-> W, ok |-> FALSE]
    ELSE
    LET pg == W.view[v].content_pages[index + 1]
        W1 == [Activate(W, v, index) EXCEPT !.asked = Append(@, pg)]
        W2 == [W1 EXCEPT
                !.view[v] = RemoveTab(@, index),
                !.page[pg] = [state |-> "closed", current_view |-> NoView]]
        W3 == IF W2.view[v].parent_view # NoView
              THEN Merge(W2, W2.view[v].parent_view, v)
              ELSE RootSplitMergeHelper(W2, NoView)
    IN  IF ~can_close
        THEN [wb |-> W1, ok |-> FALSE]
        ELSE IF Len(W2.view[v].content_pages) = 0
        THEN [wb |-> [W3 EXCEPT !.deleted_later = @ \cup {v}], ok |-> TRUE]
        ELSE [wb |-> Activate(W2, v, W2.view[v].current_index), ok |-> TRUE]

\* Mutant of CloseRepeated: the loop goes on after a close that failed.
CloseRepeated_GoesOn(W, v, index, n, vetoers) ==
    LET after[k \in 0..(IF n > 0 THEN n ELSE 0)] ==
            IF k = 0 THEN [wb |-> W, ok |-> TRUE]
            ELSE LET r == after[k - 1]
                     pages == r.wb.view[v].content_pages
                     at == IF r.ok THEN index ELSE index + 1
                     can_close ==
                        (at < 0) \/ (at >= Len(pages))
                            \/ (pages[at + 1] \notin vetoers)
                     s == CloseIndex(r.wb, v, at, can_close)
                 IN  [wb |-> s.wb, ok |-> r.ok /\ s.ok]
    IN  after[IF n > 0 THEN n ELSE 0]

\* ContentPage::Close, with ContentTabView::Close(ContentPage*)
ContentPageClose(W, pg, can_close) ==
    LET v == W.page[pg].current_view
    IN  IF v # NoView
        THEN CloseIndex(W, v, IndexOf(W.view[v].content_pages, pg), can_close)
        ELSE [wb |-> W, ok |-> FALSE]

\* "for (...) if (!Close(index)) return false": n closes at one index, given
\* up at the first that fails; the pages in vetoers refuse to close.
CloseRepeated(W, v, index, n, vetoers) ==
    LET after[k \in 0..(IF n > 0 THEN n ELSE 0)] ==
            IF k = 0 THEN [wb |-> W, ok |-> TRUE]
            ELSE LET r == after[k - 1]
                     pages == r.wb.view[v].content_pages
                     can_close ==
                        (index < 0) \/ (index >= Len(pages))
                            \/ (pages[index + 1] \notin vetoers)
                 IN  IF r.ok THEN CloseIndex(r.wb, v, index, can_close)
                     ELSE r
    IN  after[IF n > 0 THEN n ELSE 0]

\* Mutant of CloseMultiple: start_index_right does not step over a current
\* page that stays.
CloseMultiple_RightFromCurrent(W, v, left, current, right, vetoers) ==
    LET left_count == W.view[v].current_index
        right_count == Len(W.view[v].content_pages) - left_count - 1
        r1 == IF left THEN CloseRepeated(W, v, 0, left_count, vetoers)
              ELSE [wb |-> W, ok |-> TRUE]
        r2 == IF current THEN CloseRepeated(r1.wb, v, 0, 1, vetoers)
              ELSE [wb |-> r1.wb, ok |-> TRUE]
        start_index_right == IF left THEN 0 ELSE left_count
        r3 == IF right
              THEN CloseRepeated(r2.wb, v, start_index_right, right_count,
                                 vetoers)
              ELSE [wb |-> r2.wb, ok |-> TRUE]
    IN  IF ~r1.ok THEN r1 ELSE IF ~r2.ok THEN r2 ELSE r3

\* ContentTabView::CloseMultiple
CloseMultiple(W, v, left, current, right, vetoers) ==
    LET left_count == W.view[v].current_index
        right_count == Len(W.view[v].content_pages) - left_count - 1
        r1 == IF left THEN CloseRepeated(W, v, 0, left_count, vetoers)
              ELSE [wb |-> W, ok |-> TRUE]
        r2 == IF current THEN CloseRepeated(r1.wb, v, 0, 1, vetoers)
              ELSE [wb |-> r1.wb, ok |-> TRUE]
        start_index_right == (IF left THEN 0 ELSE left_count)
                                + (IF current THEN 0 ELSE 1)
        r3 == IF right
              THEN CloseRepeated(r2.wb, v, start_index_right, right_count,
                                 vetoers)
              ELSE [wb |-> r2.wb, ok |-> TRUE]
    IN  IF ~r1.ok THEN r1 ELSE IF ~r2.ok THEN r2 ELSE r3

\* Mutant of CloseView: "||" for "&&", the second child is closed when the
\* first one could not be.
RECURSIVE CloseView_Or(_, _, _)
CloseView_Or(W, v, vetoers) ==
    IF W.view[v].kind = "split"
    THEN LET r1 == CloseView_Or(W, W.view[v].view_1, vetoers)
         IN  IF r1.ok THEN r1
             ELSE CloseView_Or(r1.wb, r1.wb.view[v].view_2, vetoers)
    ELSE CloseMultiple(W, v, TRUE, TRUE, TRUE, vetoers)

\* ContentView::Close: a tab view closes all its pages, a split view its
\* first child and then (read after the first call returned) its second.
RECURSIVE CloseView(_, _, _)
CloseView(W, v, vetoers) ==
    IF W.view[v].kind = "split"
    THEN LET r1 == CloseView(W, W.view[v].view_1, vetoers)
         IN  IF r1.ok THEN CloseView(r1.wb, r1.wb.view[v].view_2, vetoers)
             ELSE r1
    ELSE CloseMultiple(W, v, TRUE, TRUE, TRUE, vetoers)

\* Mutant of Open: the new tab is added and never activated.
Open_NoActivate(W, v, pg) ==
    [W EXCEPT
        !.view[v].content_pages = Append(@, pg),
        !.view[v].current_index =
            IF Len(W.view[v].content_pages) = 0 THEN 0 ELSE @,
        !.page[pg] = [state |-> "open", current_view |-> v]]

\* ContentTabView::Open
Open(W, v, pg) ==
    LET new_index == Len(W.view[v].content_pages)
        W1 == [W EXCEPT
                !.view[v].content_pages = Append(@, pg),
                !.view[v].current_index = IF new_index = 0 THEN 0 ELSE @,
                !.page[pg] = [state |-> "open", current_view |-> v]]
    IN  Activate(W1, v, new_index)

\* Workbench::MoveContentPage: the page leaves its view (no CanClose, it is
\* not deleted) and is opened, and so activated, in the target.
MoveContentPage(W, pg, target) ==
    LET source == W.page[pg].current_view
        index == IndexOf(W.view[source].content_pages, pg)
    IN  Open([W EXCEPT !.view[source] = RemoveTab(@, index)], target, pg)

\* Mutant of Split: a tab view with a single page is split as well.
Split_NoGuard(W, v, index, orientation) ==
    LET parent_view == W.view[v].parent_view
        new_tab_view == NewViewId(W)
        Wa == [W EXCEPT !.view[new_tab_view] = NewContentTabView(NoView)]
        split_view == NewViewId(Wa)
        Wb == [Wa EXCEPT
                !.view[split_view] =
                    NewContentSplitView(v, new_tab_view, orientation,
                                        parent_view),
                !.view[new_tab_view].parent_view = split_view]
        Wc == IF parent_view = NoView
              THEN RootSplitMergeHelper(Wb, split_view)
              ELSE Replace(Wb, parent_view, v, split_view)
        Wd == [Wc EXCEPT !.view[v].parent_view = split_view]
    IN  MoveContentPage(Wd, Wd.view[v].content_pages[index + 1], new_tab_view)

\* Mutant of Split: the new tab view is the first child of the split view.
Split_HostSecond(W, v, index, orientation) ==
    IF Len(W.view[v].content_pages) <= 1 THEN W
    ELSE
    LET parent_view == W.view[v].parent_view
        new_tab_view == NewViewId(W)
        Wa == [W EXCEPT !.view[new_tab_view] = NewContentTabView(NoView)]
        split_view == NewViewId(Wa)
        Wb == [Wa EXCEPT
                !.view[split_view] =
                    NewContentSplitView(new_tab_view, v, orientation,
                                        parent_view),
                !.view[new_tab_view].parent_view = split_view]
        Wc == IF parent_view = NoView
              THEN RootSplitMergeHelper(Wb, split_view)
              ELSE Replace(Wb, parent_view, v, split_view)
        Wd == [Wc EXCEPT !.view[v].parent_view = split_view]
    IN  MoveContentPage(Wd, Wd.view[v].content_pages[index + 1], new_tab_view)

\* ContentTabView::Split(int, Qt::Orientation)
Split(W, v, index, orientation) ==
    IF Len(W.view[v].content_pages) <= 1 THEN W
    ELSE
    LET parent_view == W.view[v].parent_view
        new_tab_view == NewViewId(W)
        Wa == [W EXCEPT !.view[new_tab_view] = NewContentTabView(NoView)]
        split_view == NewViewId(Wa)
        Wb == [Wa EXCEPT
                !.view[split_view] =
                    NewContentSplitView(v, new_tab_view, orientation,
                                        parent_view),
                !.view[new_tab_view].parent_view = split_view]
        Wc == IF parent_view = NoView
              THEN RootSplitMergeHelper(Wb, split_view)
              ELSE Replace(Wb, parent_view, v, split_view)
        Wd == [Wc EXCEPT !.view[v].parent_view = split_view]
    IN  MoveContentPage(Wd, Wd.view[v].content_pages[index + 1], new_tab_view)

\* The view Workbench::OpenContentPage opens into once a root exists.
ActiveTabView(W) == W.current_view

\* Workbench::OpenContentPage
OpenContentPage(W, pg) ==
    IF W.root_view = NoView
    THEN LET root == NewViewId(W)
         IN  Open([W EXCEPT !.view[root] = NewContentTabView(NoView),
                            !.root_view = root], root, pg)
    ELSE Open(W, ActiveTabView(W), pg)

\* deleteLater(): the objects are destroyed when the handler has returned.
Deleted(W) ==
    [v \in ViewIds |->
        IF v \in W.deleted_later
        THEN [UnusedView EXCEPT !.kind = "deleted"]
        ELSE W.view[v]]
\* ------------------------------------------------------ workbench operations
\* History of the last two calls: a Split that split, and then the close of
\* the one page of the leaf it made.
NoRoundTrip == [stage |-> "none", host |-> NoView, moved |-> NoPage]

BeforeSplit(v, pg) == [stage |-> "split", host |-> v, moved |-> pg]

\* The handler has returned: the workbench is W, the objects given to
\* deleteLater() are gone.
Returns(W, value, rt) ==
    /\ view' = Deleted(W)
    /\ page' = W.page
    /\ root_view' = W.root_view
    /\ current_page' = W.current_page
    /\ current_view' = W.current_view
    /\ providers' = W.providers
    /\ has_old' = W.has_old
    /\ returned' = value
    /\ round_trip' = rt
    /\ UNCHANGED <<agVars, progressVars, notifierVars>>

Bool(b) == IF b THEN "true" ELSE "false"

\* The outcomes of CanClose that a run of closes can tell apart: it stops at
\* the first page that refuses, so no page refuses or one page of them does.
Vetoers(pages) == {{}} \cup {{pg} : pg \in pages}

TabViews == {v \in ViewIds : view[v].kind = "tab"}

\* The pages are numbered in the order in which they are constructed.
NextNewPage(pg) ==
    /\ page[pg].state = "new"
    /\ \A q \in 1..(pg - 1) : page[q].state # "new"

\* The round trip is complete when the call right after the Split closed the
\* page that the Split moved, and no other page.
AfterClose(W) ==
    IF /\ round_trip.stage = "split"
       /\ \A pg \in Pages :
            (W.page[pg] # page[pg]) <=> (pg = round_trip.moved)
    THEN [round_trip EXCEPT !.stage = "merged"]
    ELSE NoRoundTrip

DoOpenContentPage(pg) ==
    /\ NextNewPage(pg)
    /\ Returns(OpenContentPage(Workbench, pg), "void", NoRoundTrip)

DoActivate(v, index) ==
    /\ v \in TabViews
    /\ index \in 0..(Len(view[v].content_pages) - 1)
    /\ Returns(Activate(Workbench, v, index), "void", NoRoundTrip)

DoClose(v, index, can_close) ==
    /\ v \in TabViews
    /\ index \in -1..Len(view[v].content_pages)
    /\ LET r == CloseIndex(Workbench, v, index, can_close)
       IN  Returns(r.wb, Bool(r.ok), AfterClose(r.wb))

DoContentPageClose(pg, can_close) ==
    /\ page[pg].state # "closed"
    /\ LET r == ContentPageClose(Workbench, pg, can_close)
       IN  Returns(r.wb, Bool(r.ok), AfterClose(r.wb))

DoCloseMultiple(v, left, current, right, vetoers) ==
    /\ v \in TabViews
    /\ vetoers \in Vetoers({view[v].content_pages[i] :
                                i \in 1..Len(view[v].content_pages)})
    /\ LET r == CloseMultiple(Workbench, v, left, current, right, vetoers)
       IN  Returns(r.wb, Bool(r.ok), AfterClose(r.wb))

\* Workbench::CloseAllContentPages / Action_CloseAll
DoCloseAll(vetoers) ==
    /\ root_view # NoView
    /\ vetoers \in Vetoers({pg \in Pages : page[pg].state = "open"})
    /\ LET r == CloseView(Workbench, root_view, vetoers)
       IN  Returns(r.wb, Bool(r.ok), AfterClose(r.wb))

DoSplit(v, index, orientation) ==
    /\ v \in TabViews
    /\ index \in 0..(Len(view[v].content_pages) - 1)
    /\ Returns(Split(Workbench, v, index, orientation), "void",
               IF Len(view[v].content_pages) > 1
               THEN BeforeSplit(v, view[v].content_pages[index + 1])
               ELSE NoRoundTrip)

\* ------------------------------------------------ the tree of content views
Children(V, v) ==
    IF V[v].kind = "split" THEN {V[v].view_1, V[v].view_2} \cap ViewIds ELSE {}

\* The views reached from root through view_1 and view_2.
ViewsUnder(V, root) ==
    LET reach[k \in 0..Cardinality(ViewIds)] ==
            IF k = 0 THEN {root} \cap ViewIds
            ELSE LET prev == reach[k - 1]
                 IN  prev \cup UNION {Children(V, u) : u \in prev}
    IN  reach[Cardinality(ViewIds)]

TreeViews == ViewsUnder(view, root_view)
Leaves == {v \in TreeViews : view[v].kind = "tab"}
InternalNodes == {v \in TreeViews : view[v].kind = "split"}

Live(v) == (v \in ViewIds) /\ (view[v].kind \in {"tab", "split"})

\* A Close has emptied a tab view, which was deleted.
EmptiedViewDeleted == \E v \in ViewIds : view[v].kind = "deleted"

\* The tab shown by the tab view v of the views V.
CurrentTab(V, v) == V[v].content_pages[V[v].current_index + 1]

\* C6: after every operation has returned, no tab view that is reachable from
\* the root of the workbench holds zero pages.
C6_NoEmptyLeaf ==
    \A v \in Leaves : Len(view[v].content_pages) >= 1

\* A Close emptied a tab view and merged it away, and tab views remain.
C6_Witness ==
    /\ EmptiedViewDeleted
    /\ returned = "true"
    /\ Cardinality(Leaves) >= 2

\* C7: the content views form a strict binary tree: the workbench has no root
\* or one live root that is nobody's child and from which every live view is
\* reached, every split view has two distinct live children that it shares
\* with no other split view, and the tab views are one more than the split
\* views whenever there is a root.
C7_StrictBinaryTree ==
    /\ \A v \in ViewIds : Live(v) => v \in TreeViews
    /\ root_view # NoView =>
        /\ Live(root_view)
        /\ \A s \in InternalNodes : root_view \notin Children(view, s)
        /\ Cardinality(Leaves) - 1 = Cardinality(InternalNodes)
    /\ \A s \in InternalNodes :
        /\ view[s].view_1 # view[s].view_2
        /\ Live(view[s].view_1)
        /\ Live(view[s].view_2)
        /\ \A t \in InternalNodes \ {s} :
            Children(view, s) \cap Children(view, t) = {}

\* Pages were opened, a tab view was split, emptied and merged away, and a tab
\* view has been split again.
C7_Witness ==
    /\ Cardinality({v \in ViewIds : view[v].kind = "deleted"}) >= 2
    /\ round_trip.stage = "split"
    /\ Cardinality(InternalNodes) >= 1

\* C8: when there is a tree, the current page of the workbench is an open
\* page, hosted in the current view, which is a tab view of the tree and
\* shows that page as its current tab; when no page is open, the current page
\* and the current view are none.
C8_OneActivePage ==
    /\ root_view # NoView =>
        /\ current_view \in Leaves
        /\ current_page \in Pages
        /\ page[current_page] = [state |-> "open", current_view |-> current_view]
        /\ view[current_view].current_index
                \in 0..(Len(view[current_view].content_pages) - 1)
        /\ current_page = CurrentTab(view, current_view)
    /\ (\A pg \in Pages : page[pg].state # "open") =>
        (current_page = NoPage) /\ (current_view = NoView)

\* A Close merged the active tab view away and a page of the one remaining
\* tab view is current.
C8_Witness ==
    /\ EmptiedViewDeleted
    /\ returned = "true"
    /\ current_page \in Pages
    /\ Cardinality(Leaves) = 1

\* Split(index, orientation) on the tab view v and then, as the next call,
\* the close of all the pages of the tab view it made.
RoundTrip(v, index, orientation) ==
    LET S == Split(Workbench, v, index, orientation)
        new_tab_view == S.page[view[v].content_pages[index + 1]].current_view
        r == CloseMultiple(S, new_tab_view, TRUE, TRUE, TRUE, {})
    IN  [r.wb EXCEPT !.view = Deleted(r.wb)]

\* The tree of W: its root and, for each view under it, its slots, parent,
\* orientation and pages (the tab shown by a tab view aside).
Shape(W) ==
    [root_view |-> W.root_view,
     nodes |-> [u \in ViewsUnder(W.view, W.root_view) |->
                    [W.view[u] EXCEPT !.current_index = 0]]]

\* C9 as stated: a Split that splits, followed at once by the close of the
\* pages of the new tab view, gives back the tree of pages and the current
\* page that there were before the Split.
C9_RoundTripRestores ==
    \A v \in TabViews, orientation \in Orientations :
        \A index \in 0..(Len(view[v].content_pages) - 1) :
            Len(view[v].content_pages) > 1 =>
                LET R == RoundTrip(v, index, orientation)
                IN  /\ Shape(R) = Shape(Workbench)
                    /\ R.current_page = current_page

\* C9 amended: the round trip gives back the tree (every view in its slot,
\* with its parent, orientation and pages) but for the page that was split
\* off, which is closed and gone from the host tab view; the current page is
\* then the tab that the host shows, which is the tab it showed before the
\* Split unless that was the page split off.
C9_RoundTripRestoresButThePage ==
    \A v \in TabViews, orientation \in Orientations :
        \A index \in 0..(Len(view[v].content_pages) - 1) :
            Len(view[v].content_pages) > 1 =>
                LET R == RoundTrip(v, index, orientation)
                    pg == view[v].content_pages[index + 1]
                    Before == [Workbench EXCEPT
                                !.view[v].content_pages = RemoveAt(@, index)]
                IN  /\ Shape(R) = Shape(Before)
                    /\ \A u \in ViewIds \ {v} :
                            Live(u) => (R.view[u] = view[u])
                    /\ R.page = [page EXCEPT ![pg] =
                                    [state |-> "closed", current_view |-> NoView]]
                    /\ R.current_view = v
                    /\ R.current_page = CurrentTab(R.view, v)
                    /\ (CurrentTab(view, v) # pg) =>
                            (R.current_page = CurrentTab(view, v))

\* A Split has split a tab view and the next call closed the page it moved.
C9_Witness ==
    /\ round_trip.stage = "merged"
    /\ returned = "true"

\* W differs from the workbench at most in what is current: the pages, the
\* tree and the page lists are the same.
SameTreeAndPages(W) ==
    /\ W.page = page
    /\ W.root_view = root_view
    /\ W.deleted_later = {}
    /\ \A u \in ViewIds :
        [W.view[u] EXCEPT !.current_index = 0]
            = [view[u] EXCEPT !.current_index = 0]

\* C10: a close that the page's CanClose refuses returns false and leaves the
\* pages, the page lists and the tree as they are, by index and by page alike;
\* a close at an index outside the tab view, or of a page that no view hosts,
\* returns false and changes nothing at all.
C10_VetoedCloseClosesNothing ==
    /\ \A v \in TabViews : \A index \in -1..MaxPages :
         IF index \in 0..(Len(view[v].content_pages) - 1)
         THEN LET r == CloseIndex(Workbench, v, index, FALSE)
              IN  ~r.ok /\ SameTreeAndPages(r.wb)
         ELSE \A can_close \in BOOLEAN :
                CloseIndex(Workbench, v, index, can_close)
                    = [wb |-> Workbench, ok |-> FALSE]
    /\ \A pg \in Pages :
         /\ page[pg].state = "open" =>
                LET r == ContentPageClose(Workbench, pg, FALSE)
                IN  ~r.ok /\ SameTreeAndPages(r.wb)
         /\ page[pg].state = "new" =>
                \A can_close \in BOOLEAN :
                    ContentPageClose(Workbench, pg, can_close)
                        = [wb |-> Workbench, ok |-> FALSE]

\* A close has returned false while pages are open in several tab views.
C10_Witness ==
    /\ returned = "false"
    /\ Cardinality(Leaves) >= 2
    /\ \E pg \in Pages : page[pg].state = "new"

\* ---------------------------------------------------------- CloseMultiple
PagesOf(V, v) == {V[v].content_pages[i] : i \in 1..Len(V[v].content_pages)}

\* The pages that are open now and closed in W.
ClosedIn(W) ==
    {pg \in Pages : page[pg].state = "open" /\ W.page[pg].state = "closed"}

\* The pages of the tab view v that the flags name: those left of the
\* current tab, the current tab, those right of it.
Named(v, left, current, right) ==
    {view[v].content_pages[i + 1] : i \in
        {j \in 0..(Len(view[v].content_pages) - 1) :
            \/ left /\ j < view[v].current_index
            \/ current /\ j = view[v].current_index
            \/ right /\ j > view[v].current_index}}

\* The pages of the tab view v without those of gone, in their order.
Without(v, gone) ==
    LET keep[k \in 0..Len(view[v].content_pages)] ==
            IF k = 0 THEN << >>
            ELSE IF view[v].content_pages[k] \in gone THEN keep[k - 1]
            ELSE Append(keep[k - 1], view[v].content_pages[k])
    IN  keep[Len(view[v].content_pages)]

\* C11: with no page refusing, CloseMultiple(left, current, right) on any tab
\* view returns true, closes the pages that the flags name and no others, and
\* leaves the other pages of the view in their order.
C11_CloseMultipleClosesNamed ==
    \A v \in TabViews : \A left, current, right \in BOOLEAN :
        LET r == CloseMultiple(Workbench, v, left, current, right, {})
            named == Named(v, left, current, right)
        IN  /\ r.ok
            /\ ClosedIn(r.wb) = named
            /\ r.wb.view[v].content_pages = Without(v, named)

\* C12: with the current flag not set and no page refusing, the tab that the
\* view showed before CloseMultiple is the tab it shows afterwards, and it is
\* the current page of the workbench if the view was the current view or a
\* page has been closed.
C12_CurrentStaysCurrent ==
    \A v \in TabViews : \A left, right \in BOOLEAN :
        LET r == CloseMultiple(Workbench, v, left, FALSE, right, {})
        IN  /\ CurrentTab(r.wb.view, v) = CurrentTab(view, v)
            /\ ((current_view = v) \/ (ClosedIn(r.wb) # {})) =>
                    /\ r.wb.current_view = v
                    /\ r.wb.current_page = CurrentTab(view, v)

\* A close has returned true and left a tab view of several pages that
\* shows a tab which is not its first while pages left of it were closed.
C12_Witness ==
    /\ returned = "true"
    /\ \E pg \in Pages : page[pg].state = "closed"
    /\ \E v \in Leaves :
        /\ v = current_view
        /\ Len(view[v].content_pages) >= 2
        /\ view[v].current_index = 0
        /\ \E pg \in Pages :
            page[pg].state = "closed" /\ pg < view[v].content_pages[1]

\* C13: when pages refuse, CloseMultiple returns false exactly if it has
\* asked a page that refuses; that page is the last one asked, every page
\* asked before it is closed, and it and every page not asked are as they
\* were, the pages that are left keeping their order in the view.
C13_StopsAtFirstVeto ==
    \A v \in TabViews : \A left, current, right \in BOOLEAN :
        \A vetoers \in SUBSET PagesOf(view, v) :
            LET r == CloseMultiple(Workbench, v, left, current, right, vetoers)
                asked == r.wb.asked
                n == Len(asked)
            IN  /\ r.ok <=> (\A i \in 1..n : asked[i] \notin vetoers)
                /\ \A i, j \in 1..n : (asked[i] = asked[j]) => (i = j)
                /\ \A i \in 1..n :
                    IF asked[i] \in vetoers
                    THEN (i = n) /\ (r.wb.page[asked[i]] = page[asked[i]])
                    ELSE r.wb.page[asked[i]].state = "closed"
                /\ \A pg \in Pages :
                    (\A i \in 1..n : asked[i] # pg) =>
                        (r.wb.page[pg] = page[pg])
                /\ r.wb.view[v].content_pages = Without(v, ClosedIn(r.wb))

\* A close has returned false after it closed a page: the view that is
\* current still has pages, and a page of the workbench is closed.
C13_Witness ==
    /\ returned = "false"
    /\ \E pg \in Pages : page[pg].state = "closed"
    /\ \E v \in Leaves : v = current_view /\ Len(view[v].content_pages) >= 2

\* --------------------------------------------------------------- close all
OpenPages == {pg \in Pages : page[pg].state = "open"}

\* C14: Close on the root view returns true exactly if it leaves no page
\* open; with no page refusing, whatever the tree, it leaves no root view, no
\* live view, no open page, no current page and no current view; when a page
\* refuses, it returns false and every tab view none of whose pages was asked
\* keeps its pages and its current tab, and its pages stay open.
C14_CloseAllClosesAll ==
    root_view # NoView =>
        \A vetoers \in SUBSET OpenPages :
            LET r == CloseView(Workbench, root_view, vetoers)
                R == [r.wb EXCEPT !.view = Deleted(r.wb)]
                asked == {r.wb.asked[i] : i \in 1..Len(r.wb.asked)}
            IN  /\ r.ok <=> (\A pg \in Pages : R.page[pg].state # "open")
                /\ (vetoers = {}) =>
                    /\ r.ok
                    /\ R.root_view = NoView
                    /\ \A v \in ViewIds : R.view[v].kind \notin {"tab", "split"}
                    /\ R.current_page = NoPage
                    /\ R.current_view = NoView
                /\ (vetoers # {}) =>
                    /\ ~r.ok
                    /\ \A v \in Leaves :
                        (PagesOf(view, v) \cap asked = {}) =>
                            /\ R.view[v].kind = "tab"
                            /\ R.view[v].content_pages = view[v].content_pages
                            /\ R.view[v].current_index = view[v].current_index
                            /\ \A pg \in PagesOf(view, v) :
                                    R.page[pg] = page[pg]

\* A close of all has returned true and left no root, and more views than
\* pages are gone: a tree with split views has been closed.
C14_Witness ==
    /\ returned = "true"
    /\ root_view = NoView
    /\ Cardinality({v \in ViewIds : view[v].kind = "deleted"})
            > Cardinality({pg \in Pages : page[pg].state = "closed"})

PageProviders == {i \in 1..Len(providers) : providers[i][1] = "page"}

IsRegistered(p) == p[1] # "page"

\* C16: the provider list holds a content page exactly when there is a
\* current page, it holds that page and no other, and the providers that
\* were registered stay in the list, in their order.
C16_OnlyCurrentPageProvides ==
    /\ \A i \in PageProviders : providers[i][2] = current_page
    /\ Cardinality(PageProviders) = IF current_page = NoPage THEN 0 ELSE 1
    /\ (OpenPages = {}) => (PageProviders = {})
    /\ SelectSeq(providers, IsRegistered) = RegisteredProviders

\* A page has been closed and another page is the current one and the one
\* page in the provider list.
C16_Witness ==
    /\ \E pg \in Pages : page[pg].state = "closed"
    /\ current_page # NoPage
    /\ providers = << <<"page", current_page>> >> \o RegisteredProviders

\* ------------------------------------------------------- split and merge
\* C24: Split on a tab view with one page changes nothing. On a tab view with
\* two or more pages it constructs a split view of the given orientation and
\* a tab view, puts the split view where the host tab view was (as the root,
\* or in the same slot of the host's parent), with the host as view_1 and the
\* new tab view as view_2, moves the page at the index, and no other page,
\* into the new tab view and makes it the current page there; the other
\* pages stay in the host in their order and the other views are untouched.
C24_SplitWrapsHostLeaf ==
    \A v \in TabViews, orientation \in Orientations :
        \A index \in 0..(Len(view[v].content_pages) - 1) :
            LET S == Split(Workbench, v, index, orientation)
                pg == view[v].content_pages[index + 1]
                parent_view == view[v].parent_view
                split_view == S.view[v].parent_view
                new_tab_view == S.page[pg].current_view
            IN  IF Len(view[v].content_pages) = 1
                THEN S = Workbench
                ELSE
                /\ split_view \in ViewIds
                /\ new_tab_view \in ViewIds \ {split_view}
                /\ view[split_view].kind = "unused"
                /\ view[new_tab_view].kind = "unused"
                /\ S.view[split_view] =
                        NewContentSplitView(v, new_tab_view, orientation,
                                            parent_view)
                /\ IF parent_view = NoView
                   THEN (root_view = v) /\ (S.root_view = split_view)
                   ELSE /\ S.root_view = root_view
                        /\ S.view[parent_view] =
                            IF view[parent_view].view_1 = v
                            THEN [view[parent_view] EXCEPT
                                    !.view_1 = split_view]
                            ELSE [view[parent_view] EXCEPT
                                    !.view_2 = split_view]
                /\ S.view[new_tab_view] =
                        [NewContentTabView(split_view) EXCEPT
                            !.content_pages = <<pg>>, !.current_index = 0]
                /\ S.view[v].kind = "tab"
                /\ S.view[v].content_pages =
                        RemoveAt(view[v].content_pages, index)
                /\ S.page = [page EXCEPT ![pg].current_view = new_tab_view]
                /\ S.current_page = pg
                /\ S.current_view = new_tab_view
                /\ S.deleted_later = {}
                /\ \A u \in ViewIds \
                            {v, split_view, new_tab_view, parent_view} :
                        S.view[u] = view[u]

\* A tab view whose parent is a split view has been split: the new split
\* view took the host's slot under that parent, and the page that moved is
\* the current one.
C24_Witness ==
    /\ round_trip.stage = "split"
    /\ current_page = round_trip.moved
    /\ view[round_trip.host].parent_view # root_view
    /\ view[view[round_trip.host].parent_view].view_1 = round_trip.host
    /\ view[view[round_trip.host].parent_view].view_2 = current_view

\* C25: the close of the one page of a tab view merges: with no parent the
\* workbench has no root and no current page any more; with a parent the
\* sibling takes the parent's slot (it is the root without a parent when the
\* parent was the root), the views under the sibling are as before, and the
\* current page is the current tab of the tab view reached from the sibling
\* through view_1; the tab view and its parent are deleted. The close of one
\* of several pages keeps the tree and makes the tab that the tab view then
\* shows the current page.
C25_LastCloseMerges ==
    \A v \in TabViews :
        \A index \in 0..(Len(view[v].content_pages) - 1) :
            LET r == CloseIndex(Workbench, v, index, TRUE)
                R == r.wb
                pg == view[v].content_pages[index + 1]
                s == view[v].parent_view
                other_view == IF view[s].view_1 = v
                              THEN view[s].view_2 ELSE view[s].view_1
                parent_view == view[s].parent_view
                leaf == FirstTabView(Workbench, other_view)
            IN  /\ r.ok
                /\ R.page[pg].state = "closed"
                /\ IF Len(view[v].content_pages) > 1
                   THEN /\ R.root_view = root_view
                        /\ R.deleted_later = {}
                        /\ R.view[v].content_pages =
                                RemoveAt(view[v].content_pages, index)
                        /\ \A u \in ViewIds \ {v} : R.view[u] = view[u]
                        /\ R.current_view = v
                        /\ R.current_page = CurrentTab(R.view, v)
                   ELSE IF s = NoView
                   THEN /\ R.root_view = NoView
                        /\ R.current_page = NoPage
                        /\ R.current_view = NoView
                        /\ R.deleted_later = {v}
                   ELSE /\ R.deleted_later = {v, s}
                        /\ IF parent_view = NoView
                           THEN R.root_view = other_view
                           ELSE /\ R.root_view = root_view
                                /\ R.view[parent_view] =
                                    IF view[parent_view].view_1 = s
                                    THEN [view[parent_view] EXCEPT
                                            !.view_1 = other_view]
                                    ELSE [view[parent_view] EXCEPT
                                            !.view_2 = other_view]
                        /\ R.view[other_view] =
                                [view[other_view] EXCEPT
                                    !.parent_view = parent_view]
                        /\ \A u \in ViewsUnder(view, other_view)
                                    \ {other_view} :
                                R.view[u] = view[u]
                        /\ R.current_view = leaf
                        /\ R.current_page = CurrentTab(view, leaf)

\* A close has emptied a tab view whose parent was in a slot of another
\* split view: that split view is left, with two tab views.
C25_Witness ==
    /\ returned = "true"
    /\ Cardinality({v \in ViewIds : view[v].kind = "deleted"}) = 2
    /\ Cardinality(InternalNodes) = 1
    /\ Cardinality(OpenPages) = 2
    /\ current_page = CurrentTab(view, FirstTabView(Workbench, current_view))

\* C30: Close(index) with an index of the tab view makes the page there the
\* current tab, the current page and its tab view the current view before
\* CanClose is asked, so they are that when CanClose refuses, and a refused
\* close of a page that was not the current one has changed the workbench;
\* a close with an index outside the tab view leaves what is current alone.
C30_VetoedCloseActivates ==
    \A v \in TabViews : \A index \in -1..MaxPages :
        LET r == CloseIndex(Workbench, v, index, FALSE)
            R == r.wb
        IN  IF index \in 0..(Len(view[v].content_pages) - 1)
            THEN LET pg == view[v].content_pages[index + 1]
                 IN  /\ ~r.ok
                     /\ R.view[v].current_index = index
                     /\ R.current_page = pg
                     /\ R.current_view = v
                     /\ R.asked = <<pg>>
                     /\ (pg # current_page) =>
                            [R EXCEPT !.asked = << >>] # Workbench
            ELSE \A can_close \in BOOLEAN :
                    LET o == CloseIndex(Workbench, v, index, can_close)
                    IN  /\ ~o.ok
                        /\ o.wb.current_page = current_page
                        /\ o.wb.current_view = current_view
                        /\ o.wb.view = view

\* A close has been refused in a tab view of several pages, beside another
\* tab view, and the page it was asked of is the current one, not the page
\* opened last.
C30_Witness ==
    /\ returned = "false"
    /\ Cardinality(Leaves) >= 2
    /\ current_view \in Leaves
    /\ Len(view[current_view].content_pages) >= 2
    /\ view[current_view].current_index = 0
    /\ \E pg \in Pages : pg > current_page /\ page[pg].state = "open"

\* ============================================== tasks, monitor and notifier
Tasks == 1..MaxTasks
NoTask == 0
\* The notifications the client constructs, and behind them the one that
\* ReportError constructs for each task.
ClientNotifications == 1..MaxNotifications
Notifications == 1..(MaxNotifications + MaxTasks)
NoNotification == 0
ErrorNotification(t) == MaxNotifications + t
TaskName(t) == <<"task", t>>

\* The values the unit of work passes to set_value.
ValueInputs == {-5, 50, 150}

qMin(a, b) == IF a < b THEN a ELSE b
qMax(a, b) == IF a < b THEN b ELSE a

\* Mutant of qBound: no upper limit.
qBound_NoUpper(min, val, max) == qMax(min, val)

\* qBound(min, val, max)
qBound(min, val, max) == qMax(min, qMin(max, val))

\* Task::Task: not started, value(0). needs_event_queue is const and read
\* by run() only; it is recorded when the task is started.
NewTask == [state |-> "created", value |-> 0, requested |-> << >>,
            result |-> "none", needs_event_queue |-> FALSE, quit |-> FALSE]

\* The names of actions: the one the constructor adds, and one of the
\* client's.
Names == {"Close", "Retry"}

\* QApplication::translate("nova/notification", "Close") with no translation
\* installed.
CloseText == "Close"

\* An ActionList of the client with these names; its callbacks are the
\* client's.
ActionList(names) == [name \in names |-> "client"]

\* Mutant of NewNotification: an entry of the client named like the implicit
\* action is kept.
NewNotification_KeepsClients(title, type, high_priority, actions) ==
    [state |-> "alive", title |-> title, type |-> type,
     high_priority |-> high_priority,
     actions |-> [name \in (DOMAIN actions) \cup {CloseText} |->
                    IF name \in DOMAIN actions THEN actions[name]
                    ELSE "close"]]

\* Notification::Notification: the actions are the client's, and the entry
\* for the translated "Close" is set to the lambda that closes.
NewNotification(title, type, high_priority, actions) ==
    [state |-> "alive", title |-> title, type |-> type,
     high_priority |-> high_priority,
     actions |-> [name \in (DOMAIN actions) \cup {CloseText} |->
                    IF name = CloseText THEN "close" ELSE actions[name]]]

NotConstructed ==
    [state |-> "unconstructed", title |-> << >>, type |-> "",
     high_priority |-> FALSE, actions |-> ActionList({})]

NotActivated == [notification |-> 0, callback |-> "none", raised |-> FALSE]

NoNotificationView == [is_active |-> FALSE, notification |-> 0]

\* The notifier seen as one value, which the operations below transform.
Notifier ==
    [notification |-> notification,
     current_notification |-> current_notification,
     notification_view |-> notification_view,
     show_calls |-> show_calls,
     activated |-> activated]

\* Notifier::Disable
NotifierDisable(N, n) ==
    IF N.current_notification = n
    THEN [N EXCEPT !.current_notification = NoNotification,
                   !.notification_view = NoNotificationView]
    ELSE N

\* Notification::Close: Disable, then delete this.
NotificationClose(N, n) ==
    [NotifierDisable(N, n) EXCEPT !.notification[n].state = "deleted"]

\* Mutant of NotifierEnable: the notification that was current is not closed.
NotifierEnable_KeepsOld(N, n) ==
    [N EXCEPT !.current_notification = n,
              !.notification_view = [is_active |-> TRUE, notification |-> n]]

\* Notifier::Enable. When the notification that is current has been deleted
\* (Show called on the current notification), the call of Close on it either
\* goes on as written or ends the program, after which nothing is observed.
NotifierEnable(N, n) ==
    LET N1 == IF N.current_notification # NoNotification
              THEN NotificationClose(N, N.current_notification)
              ELSE N
    IN  [N1 EXCEPT !.current_notification = n,
                   !.notification_view = [is_active |-> TRUE, notification |-> n]]

\* Notification::Show
NotificationShow(N, n) ==
    NotifierEnable([N EXCEPT !.show_calls = Append(@, n)], n)

\* Mutant of ReportError: the notification is not of high priority.
ReportError_LowPriority(N, notifier, t) ==
    IF notifier # "nullptr"
    THEN NotificationShow(
            [N EXCEPT !.notification[ErrorNotification(t)] =
                NewNotification(TaskName(t), "Error", FALSE, ActionList({}))],
            ErrorNotification(t))
    ELSE N

\* ProgressMonitor::ReportError, called with the name of task t.
ReportError(N, notifier, t) ==
    IF notifier # "nullptr"
    THEN NotificationShow(
            [N EXCEPT !.notification[ErrorNotification(t)] =
                NewNotification(TaskName(t), "Error", TRUE, ActionList({}))],
            ErrorNotification(t))
    ELSE N

\* Mutant of ActivateAction: the test is for the name that is asked for.
ActivateAction_TestsName(N, n, action) ==
    IF action \in DOMAIN N.notification[n].actions
    THEN LET callback == N.notification[n].actions[action]
             N1 == [N EXCEPT !.activated =
                        [notification |-> n, callback |-> callback,
                         raised |-> FALSE]]
         IN  IF callback = "close" THEN NotificationClose(N1, n) ELSE N1
    ELSE [N EXCEPT !.activated =
            [notification |-> n, callback |-> "none", raised |-> FALSE]]

\* Notification::ActivateAction: when the map has the key "Close", the call
\* actions[action](this). QMap::operator[] inserts a default-constructed
\* std::function for a key that is absent, and calling an empty
\* std::function throws std::bad_function_call. What a callback of the
\* client does is the client's.
ActivateAction(N, n, action) ==
    IF "Close" \in DOMAIN N.notification[n].actions
    THEN LET old == N.notification[n].actions
             new == [name \in (DOMAIN old) \cup {action} |->
                        IF name \in DOMAIN old THEN old[name] ELSE "empty"]
             callback == new[action]
             N1 == [N EXCEPT !.notification[n].actions = new,
                             !.activated =
                                [notification |-> n, callback |-> callback,
                                 raised |-> (callback = "empty")]]
         IN  IF callback = "close" THEN NotificationClose(N1, n) ELSE N1
    ELSE [N EXCEPT !.activated =
            [notification |-> n, callback |-> "none", raised |-> FALSE]]

\* Notifier::ActivateNotificationAction
ActivateNotificationAction(N, action) ==
    IF N.current_notification # NoNotification
    THEN ActivateAction(N, N.current_notification, action)
    ELSE N

\* ProgressMonitor::get_current_task
GetCurrentTask(list) == IF list = << >> THEN NoTask ELSE list[1]

\* ProgressMonitor::UpdateTasks: the arguments of UpdateProgressView.
UpdateTasks(list) ==
    IF list = << >>
    THEN [is_active |-> FALSE, task |-> NoTask]
    ELSE [is_active |-> TRUE, task |-> list[1]]

\* QList::removeAll
RemoveAll(list, x) ==
    LET keep(y) == y # x
    IN  SelectSeq(list, keep)

\* The notifier is N when the handler has returned.
NotifierBecomes(N) ==
    /\ notification' = N.notification
    /\ current_notification' = N.current_notification
    /\ notification_view' = N.notification_view
    /\ show_calls' = N.show_calls
    /\ activated' = N.activated

Post(event) == events' = Append(events, event)

Pending(kind) ==
    Cardinality({i \in 1..Len(events) : events[i][1] = kind})

\* ---------------------------------------------------------- client calls
\* ProgressMonitor::ProgressMonitor(Notifier*)
NewProgressMonitor(notifier) ==
    /\ monitor_notifier = "unconstructed"
    /\ monitor_notifier' = notifier
    /\ UNCHANGED <<task, tasks, progress_view, monitor_calls, events,
                   notifierVars, agVars, cvVars>>

\* Task::start(): the thread runs; it emits started, which is queued for the
\* main thread, and enters run().
TaskStart(t, needs_event_queue) ==
    /\ monitor_notifier # "unconstructed"
    /\ task[t].state = "created"
    /\ \A u \in 1..(t - 1) : task[u].state # "created"
    /\ task' = [task EXCEPT ![t].state = "running",
                            ![t].needs_event_queue = needs_event_queue]
    /\ Post(<<"Enable", t>>)
    /\ UNCHANGED <<tasks, progress_view, monitor_calls, monitor_notifier,
                   notifierVars, agVars, cvVars>>

\* Task::set_value, called by the unit of work.
SetValue(t, v) ==
    /\ task[t].state = "running"
    /\ Pending("UpdateTasks") < MaxPending
    /\ task' = [task EXCEPT ![t].value = qBound(0, v, 100),
                            ![t].requested = <<v>>]
    /\ Post(<<"UpdateTasks", t>>)
    /\ UNCHANGED <<tasks, progress_view, monitor_calls, monitor_notifier,
                   notifierVars, agVars, cvVars>>

\* Task::run, first half: Run() has returned, errorOccurred is emitted when
\* it failed.
TaskRun(t, ok) ==
    /\ task[t].state = "running"
    /\ task' = [task EXCEPT ![t].state = "returned",
                            ![t].result = IF ok THEN "succeeded"
                                          ELSE "failed"]
    /\ IF ok THEN UNCHANGED events ELSE Post(<<"ReportError", t>>)
    /\ UNCHANGED <<tasks, progress_view, monitor_calls, monitor_notifier,
                   notifierVars, agVars, cvVars>>

\* Mutant of TaskFinish: run() returns whether or not the task needs an
\* event queue.
TaskFinish_NoEventQueue(t) ==
    /\ task[t].state = "returned"
    /\ task' = [task EXCEPT ![t].state = "exited"]
    /\ Post(<<"Disable", t>>)
    /\ UNCHANGED <<tasks, progress_view, monitor_calls, monitor_notifier,
                   notifierVars, agVars, cvVars>>

\* Task::run, second half: disabled is emitted; then exec() when the task
\* needs an event queue, else run() returns.
TaskFinish(t) ==
    /\ task[t].state = "returned"
    /\ task' = [task EXCEPT ![t].state = IF task[t].needs_event_queue
                                         THEN "lingering" ELSE "exited"]
    /\ Post(<<"Disable", t>>)
    /\ UNCHANGED <<tasks, progress_view, monitor_calls, monitor_notifier,
                   notifierVars, agVars, cvVars>>

\* QThread::quit(), called on a task whose event loop runs: exec() and
\* with it run() return.
Quit(t) ==
    /\ task[t].state = "lingering"
    /\ task' = [task EXCEPT ![t].state = "exited", ![t].quit = TRUE]
    /\ UNCHANGED <<tasks, progress_view, monitor_calls, monitor_notifier,
                   events, notifierVars, agVars, cvVars>>

\* run() has returned: the thread emits finished, which is connected to the
\* task's deleteLater.
ThreadFinished(t) ==
    /\ task[t].state = "exited"
    /\ task' = [task EXCEPT ![t].state = "finished"]
    /\ Post(<<"deleteLater", t>>)
    /\ UNCHANGED <<tasks, progress_view, monitor_calls, monitor_notifier,
                   notifierVars, agVars, cvVars>>

\* ------------------------------------------- the main thread's event loop
Dispatch(kind, t) ==
    /\ events # << >>
    /\ Head(events) = <<kind, t>>
    /\ events' = Tail(events)

\* ProgressMonitor::Enable
HandleEnable(t) ==
    /\ Dispatch("Enable", t)
    /\ tasks' = Append(tasks, t)
    /\ progress_view' = UpdateTasks(tasks')
    /\ monitor_calls' = Append(monitor_calls, <<"Enable", t>>)
    /\ UNCHANGED <<task, monitor_notifier, notifierVars, agVars, cvVars>>

\* Mutant of HandleDisable: the task stays in the list.
HandleDisable_Keeps(t) ==
    /\ Dispatch("Disable", t)
    /\ tasks' = tasks
    /\ progress_view' = UpdateTasks(tasks')
    /\ monitor_calls' = Append(monitor_calls, <<"Disable", t>>)
    /\ UNCHANGED <<task, monitor_notifier, notifierVars, agVars, cvVars>>

\* ProgressMonitor::Disable
HandleDisable(t) ==
    /\ Dispatch("Disable", t)
    /\ tasks' = RemoveAll(tasks, t)
    /\ progress_view' = UpdateTasks(tasks')
    /\ monitor_calls' = Append(monitor_calls, <<"Disable", t>>)
    /\ UNCHANGED <<task, monitor_notifier, notifierVars, agVars, cvVars>>

\* The slot of Task::updated: ProgressMonitor::UpdateTasks
HandleUpdateTasks(t) ==
    /\ Dispatch("UpdateTasks", t)
    /\ progress_view' = UpdateTasks(tasks)
    /\ UNCHANGED <<task, tasks, monitor_calls, monitor_notifier,
                   notifierVars, agVars, cvVars>>

\* The slot of Task::errorOccurred: ProgressMonitor::ReportError
HandleReportError(t) ==
    /\ Dispatch("ReportError", t)
    /\ NotifierBecomes(ReportError(Notifier, monitor_notifier, t))
    /\ monitor_calls' = Append(monitor_calls, <<"ReportError", t>>)
    /\ UNCHANGED <<task, tasks, progress_view, monitor_notifier, agVars,
                   cvVars>>

\* QObject::deleteLater of the task
HandleDeleteLater(t) ==
    /\ Dispatch("deleteLater", t)
    /\ task' = [task EXCEPT ![t].state = "deleted"]
    /\ UNCHANGED <<tasks, progress_view, monitor_calls, monitor_notifier,
                   notifierVars, agVars, cvVars>>

\* Notification::Show, called by the client on a notification it holds.
DoShow(n) ==
    /\ notification[n].state = "alive"
    /\ NotifierBecomes(NotificationShow(Notifier, n))
    /\ UNCHANGED <<progressVars, agVars, cvVars>>

\* Notification::Close, called by the client on a notification it holds.
DoNotificationClose(n) ==
    /\ notification[n].state = "alive"
    /\ NotifierBecomes(NotificationClose(Notifier, n))
    /\ UNCHANGED <<progressVars, agVars, cvVars>>

\* Notification::ActivateAction, called by the client on a notification it
\* holds.
DoActivateAction(n, action) ==
    /\ notification[n].state = "alive"
    /\ NotifierBecomes(ActivateAction(Notifier, n, action))
    /\ UNCHANGED <<progressVars, agVars, cvVars>>

\* Notifier::ActivateNotificationAction, the slot of the links of the view.
DoActivateNotificationAction(action) ==
    /\ NotifierBecomes(ActivateNotificationAction(Notifier, action))
    /\ UNCHANGED <<progressVars, agVars, cvVars>>

\* ------------------------------------------------------------- set_value
Least(a, b) == IF a <= b THEN a ELSE b
Greatest(a, b) == IF a >= b THEN a ELSE b

\* The values the clamp is checked on: around both limits, and the ends of
\* int.
CheckedValues == (-8..108) \cup {-2147483647 - 1, 2147483647}

\* C17: set_value(v) stores min(100, max(0, v)): the value of every task is
\* within 0..100 and is the clamp of the value last passed to set_value, and
\* this is what qBound(0, v, 100) computes for every v.
C17_SetValueClamps ==
    /\ \A t \in Tasks :
        /\ task[t].value \in 0..100
        /\ (task[t].requested # << >>) =>
                (task[t].value = Least(100, Greatest(0, task[t].requested[1])))
    /\ \A v \in CheckedValues \cup ValueInputs :
        /\ qBound(0, v, 100) = Least(100, Greatest(0, v))
        /\ qBound(0, v, 100) \in 0..100

\* set_value(150) has stored 100 in one task and set_value(-5) has stored 0
\* in another.
C17_Witness ==
    \E t, u \in Tasks :
        /\ task[t].requested = <<150>>
        /\ task[t].value = 100
        /\ task[u].requested = <<-5>>
        /\ task[u].value = 0

\* ------------------------------------------------------------ the monitor
\* The calls of kind that the monitor has handled, as positions in
\* monitor_calls.
Handled(kind, t) ==
    {i \in 1..Len(monitor_calls) : monitor_calls[i] = <<kind, t>>}

EnabledNow == {t \in Tasks : Handled("Enable", t) # {}
                             /\ Handled("Disable", t) = {}}

\* The task enabled last among those not yet disabled.
MostRecentlyEnabled ==
    IF EnabledNow = {} THEN NoTask
    ELSE CHOOSE t \in EnabledNow :
            \A u \in EnabledNow :
                \A i \in Handled("Enable", t), j \in Handled("Enable", u) :
                    j <= i

\* C18: get_current_task() and the task given to UpdateProgressView are the
\* task enabled last among those not yet disabled, none when there is none.
C18_PresentsMostRecentlyEnabled ==
    /\ GetCurrentTask(tasks) = MostRecentlyEnabled
    /\ progress_view.task = MostRecentlyEnabled
    /\ progress_view.is_active <=> (MostRecentlyEnabled # NoTask)

\* ------------------------------------------------------------ ReportError
\* C19: the notification of a task exists only if the task failed and a
\* notifier was injected; once the monitor has handled the failure with a
\* notifier, the notification has been made with the task's name as title,
\* type Error and high priority, and has been shown; handling a failure
\* makes it the current notification; with no notifier, handling a failure
\* changes nothing of the notifier.
C19_FailureIsNotified ==
    \A t \in Tasks :
        LET n == ErrorNotification(t)
            R == ReportError(Notifier, "notifier", t)
        IN  /\ (notification[n].state # "unconstructed") =>
                    /\ task[t].result = "failed"
                    /\ monitor_notifier = "notifier"
                    /\ Handled("ReportError", t) # {}
            /\ ((Handled("ReportError", t) # {})
                    /\ (monitor_notifier = "notifier")) =>
                    /\ notification[n].state # "unconstructed"
                    /\ notification[n].title = TaskName(t)
                    /\ notification[n].type = "Error"
                    /\ notification[n].high_priority
                    /\ \E i \in 1..Len(show_calls) : show_calls[i] = n
            /\ (Handled("ReportError", t) # {}) =>
                    (task[t].result = "failed")
            /\ (task[t].result = "succeeded") =>
                    \A i \in 1..Len(events) : events[i] # <<"ReportError", t>>
            /\ (notification[n].state = "unconstructed") =>
                    /\ R.current_notification = n
                    /\ R.notification[n] =
                            NewNotification(TaskName(t), "Error", TRUE,
                                            ActionList({}))
                    /\ R.notification_view =
                            [is_active |-> TRUE, notification |-> n]
                    /\ R.show_calls = Append(show_calls, n)
            /\ ReportError(Notifier, "nullptr", t) = Notifier
            /\ (monitor_notifier # "notifier") =>
                    (notification[n].state = "unconstructed")

\* Two tasks have failed: the notification of the second failure is the
\* current one and has closed the notification of the first, and both tasks
\* have left the monitor.
C19_Witness ==
    \E t, u \in Tasks :
        /\ task[t].result = "failed"
        /\ task[u].result = "failed"
        /\ current_notification = ErrorNotification(t)
        /\ notification[ErrorNotification(t)].state = "alive"
        /\ notification[ErrorNotification(u)].state = "deleted"
        /\ show_calls = <<ErrorNotification(u), ErrorNotification(t)>>
        /\ tasks = << >>
        /\ Handled("Disable", t) # {}
        /\ Handled("Disable", u) # {}

\* ------------------------------------------------------------ the notifier
Distinct(s) == \A i, j \in 1..Len(s) : (s[i] = s[j]) => (i = j)

ShownAlive ==
    {i \in 1..Len(show_calls) : notification[show_calls[i]].state = "alive"}

\* The notification shown last among those not closed.
MostRecentlyShown ==
    IF ShownAlive = {} THEN NoNotification
    ELSE show_calls[CHOOSE i \in ShownAlive : \A j \in ShownAlive : j <= i]

\* C20: while every notification has been shown at most once, the current
\* notification is the one shown last among those not closed, or none, and
\* every other notification that has been shown is deleted; showing a
\* notification while another one is current deletes that one and makes the
\* new one current.
C20_OneCurrentNotification ==
    /\ Distinct(show_calls) =>
        /\ current_notification = MostRecentlyShown
        /\ \A i \in 1..Len(show_calls) :
            (show_calls[i] # current_notification) =>
                (notification[show_calls[i]].state = "deleted")
    /\ \A n2 \in Notifications :
        ((notification[n2].state = "alive")
            /\ (current_notification \notin {NoNotification, n2})
            /\ (notification[current_notification].state = "alive")) =>
            LET R == NotificationShow(Notifier, n2)
            IN  /\ R.current_notification = n2
                /\ R.notification[n2].state = "alive"
                /\ R.notification[current_notification].state = "deleted"
                /\ \A m \in Notifications \ {current_notification} :
                        R.notification[m] = notification[m]

\* Two notifications of the client have been shown one after the other: the
\* first one is deleted and the second one is current.
C20_Witness ==
    /\ Len(show_calls) >= 2
    /\ Distinct(show_calls)
    /\ show_calls[1] \in ClientNotifications
    /\ show_calls[2] \in ClientNotifications
    /\ notification[show_calls[1]].state = "deleted"
    /\ current_notification = show_calls[2]
    /\ notification[show_calls[2]].state = "alive"

\* ------------------------------------------------------- the life of a task
InMonitor(t) == \E i \in 1..Len(tasks) : tasks[i] = t

Queued(kind, t) == \E i \in 1..Len(events) : events[i] = <<kind, t>>

WorkReturned(t) ==
    task[t].state \in {"returned", "lingering", "exited", "finished",
                       "deleted"}

\* C23: a task is in the monitor from the Enable that its start queues until
\* the Disable that the return of its work queues; a task whose work has not
\* returned has no Disable queued or handled, stays in the monitor once it is
\* in, and is not deleted; a lingering task needs an event queue, has its
\* Disable queued or handled and no deleteLater queued; a task that needs an
\* event queue gets past lingering only by quit(); a deleted task has left
\* the monitor.
C23_TaskLifecycle ==
    \A t \in Tasks :
        /\ InMonitor(t) <=>
                ((Handled("Enable", t) # {}) /\ (Handled("Disable", t) = {}))
        /\ (task[t].state = "created") =>
                /\ ~Queued("Enable", t)
                /\ Handled("Enable", t) = {}
        /\ (task[t].state # "created") =>
                (Queued("Enable", t) \/ (Handled("Enable", t) # {}))
        /\ (task[t].result # "none") <=> WorkReturned(t)
        /\ (Queued("Disable", t) \/ (Handled("Disable", t) # {})) <=>
                (task[t].state \in {"lingering", "exited", "finished",
                                    "deleted"})
        /\ (task[t].state = "running") =>
                ((Handled("Enable", t) # {}) => InMonitor(t))
        /\ (task[t].state = "lingering") =>
                /\ task[t].needs_event_queue
                /\ ~task[t].quit
                /\ ~Queued("deleteLater", t)
        /\ (task[t].needs_event_queue
                /\ (task[t].state \in {"exited", "finished", "deleted"})) =>
                task[t].quit
        /\ Queued("deleteLater", t) <=> (task[t].state = "finished")
        /\ (task[t].state = "deleted") =>
                /\ Handled("Disable", t) # {}
                /\ ~InMonitor(t)

\* A task that needs an event queue has lingered until quit() and is
\* deleted, as is a task that needs none.
C23_Witness ==
    \E t, u \in Tasks :
        /\ task[t].needs_event_queue
        /\ task[t].quit
        /\ task[t].state = "deleted"
        /\ ~task[u].needs_event_queue
        /\ task[u].state = "deleted"
        /\ tasks = << >>

\* ------------------------------------------------------ the order of events
NoDuplicates(s) == \A i, j \in 1..Len(s) : (s[i] = s[j]) => (i = j)

\* The order of the calls of each task: the monitor handles each call of a
\* task at most once, the Enable before the ReportError and the Disable, the
\* ReportError (only of a failed task, and of every failed task before its
\* Disable) before the Disable, and the deletion comes after the Disable;
\* the monitor's list holds no task twice and no deleted task.
C28_PerTaskOrder ==
    /\ NoDuplicates(monitor_calls)
    /\ NoDuplicates(tasks)
    /\ \A t \in Tasks :
        /\ \A i \in Handled("ReportError", t) \cup Handled("Disable", t) :
                \E j \in Handled("Enable", t) : j < i
        /\ \A i \in Handled("Disable", t) :
                /\ \A j \in Handled("ReportError", t) : j < i
                /\ (task[t].result = "failed") =>
                        (Handled("ReportError", t) # {})
        /\ (Handled("ReportError", t) # {}) => (task[t].result = "failed")
        /\ (task[t].state = "deleted") =>
                /\ Handled("Disable", t) # {}
                /\ ~Queued("Enable", t)
                /\ ~Queued("ReportError", t)
                /\ ~Queued("Disable", t)
        /\ InMonitor(t) => (task[t].state # "deleted")

\* The calls of two tasks are interleaved, and the task enabled first is
\* disabled last: its failure is reported after the other task has been
\* disabled, and both are deleted.
C28_Witness ==
    \E t, u \in Tasks :
        /\ monitor_calls = << <<"Enable", t>>, <<"Enable", u>>,
                              <<"Disable", u>>, <<"ReportError", t>>,
                              <<"Disable", t>> >>
        /\ task[t].state = "deleted"
        /\ task[u].state = "deleted"
        /\ tasks = << >>

\* Every task whose work has returned is eventually disabled, and so
\* removed from the monitor's list. A result stays once Run() has returned
\* and a task that was removed is not added again, so this is: time and
\* again, every task that has a result has been removed.
EventuallyRemoved ==
    []<>(\A t \in Tasks :
            (task[t].result # "none") =>
                ((Handled("Disable", t) # {}) /\ ~InMonitor(t)))

\* C28: the order of the calls of each task always holds, and every task
\* whose work has returned is eventually removed from the monitor's list.
C28_OrderedAndRemoved == ([]C28_PerTaskOrder) /\ EventuallyRemoved

\* The action lists the client constructs its notifications with: none, one
\* action of its own, and one named like the implicit action beside it.
ClientActions(n) ==
    IF n % 3 = 1 THEN ActionList({})
    ELSE IF n % 3 = 2 THEN ActionList({"Retry"})
    ELSE ActionList({"Close", "Retry"})

\* ------------------------------------------------------------- the actions
\* C21: activating a name that is not a key of the notification's actions
\* runs no callback, throws nothing and changes neither the notification nor
\* the notifier, whether called on the notification or through the notifier;
\* with no current notification the notifier's call changes nothing.
C21_UnknownActionIsNoOp ==
    /\ \A n \in Notifications, action \in Names :
        ((notification[n].state = "alive")
            /\ (action \notin DOMAIN notification[n].actions)) =>
            LET R == ActivateAction(Notifier, n, action)
                Q == ActivateNotificationAction(Notifier, action)
            IN  /\ R.activated.callback = "none"
                /\ ~R.activated.raised
                /\ R.notification = notification
                /\ R.current_notification = current_notification
                /\ (current_notification = n) =>
                        /\ Q.notification = notification
                        /\ Q.current_notification = current_notification
                        /\ ~Q.activated.raised
    /\ (current_notification = NoNotification) =>
        \A action \in Names :
            ActivateNotificationAction(Notifier, action) = Notifier

\* C22: every notification has the action "Close" with the callback that
\* closes, whatever list of actions it is constructed with, the other
\* actions being the client's; activating "Close" through the notifier
\* leaves no current notification, the view inactive and the notification
\* deleted, and changes no other notification.
C22_ImplicitCloseCloses ==
    /\ \A n \in Notifications :
        (notification[n].state # "unconstructed") =>
            /\ "Close" \in DOMAIN notification[n].actions
            /\ notification[n].actions["Close"] = "close"
    /\ \A names \in SUBSET Names :
        LET made == NewNotification(<<"client", 0>>, "Warning", TRUE,
                                    ActionList(names))
        IN  /\ DOMAIN made.actions = names \cup {"Close"}
            /\ \A name \in DOMAIN made.actions :
                made.actions[name] =
                    IF name = "Close" THEN "close" ELSE "client"
    /\ ((current_notification # NoNotification)
            /\ (notification[current_notification].state = "alive")) =>
            LET R == ActivateNotificationAction(Notifier, "Close")
            IN  /\ R.current_notification = NoNotification
                /\ R.notification_view = NoNotificationView
                /\ R.notification[current_notification].state = "deleted"
                /\ R.activated.callback = "close"
                /\ ~R.activated.raised
                /\ \A m \in Notifications \ {current_notification} :
                        R.notification[m] = notification[m]

\* "Close" has been activated on a notification that the client constructed
\* with an action "Close" of its own and that had been shown: the implicit
\* callback ran, the notification is deleted and none is current.
C22_Witness ==
    /\ activated.callback = "close"
    /\ activated.notification \in ClientNotifications
    /\ "Close" \in DOMAIN ClientActions(activated.notification)
    /\ notification[activated.notification].state = "deleted"
    /\ show_calls = <<activated.notification>>
    /\ current_notification = NoNotification
    /\ notification_view = NoNotificationView

\* C29: the current notification is none or a notification that is alive,
\* and closing a notification that is not the current one leaves the current
\* one as it is.
C29_CurrentIsAlive ==
    /\ (current_notification # NoNotification) =>
            (notification[current_notification].state = "alive")
    /\ \A n \in Notifications :
        ((notification[n].state = "alive") /\ (n # current_notification)) =>
            (NotificationClose(Notifier, n).current_notification
                = current_notification)

InitProgress ==
    /\ task = [t \in Tasks |-> NewTask]
    /\ tasks = << >>
    /\ progress_view = [is_active |-> FALSE, task |-> NoTask]
    /\ monitor_calls = << >>
    /\ monitor_notifier = "unconstructed"
    /\ events = << >>
    /\ notification =
        [n \in Notifications |->
            IF n \in ClientNotifications
            THEN NewNotification(<<"client", n>>, "Information", FALSE,
                                 ClientActions(n))
            ELSE NotConstructed]
    /\ current_notification = NoNotification
    /\ notification_view = NoNotificationView
    /\ show_calls = << >>
    /\ activated = NotActivated

InitViews ==
    /\ view = [v \in ViewIds |-> UnusedView]
    /\ page = [pg \in Pages |-> NewContentPage]
    /\ root_view = NoView
    /\ current_page = NoPage
    /\ current_view = NoView
    /\ providers = RegisteredProviders
    /\ has_old = FALSE
    /\ returned = "void"
    /\ round_trip = NoRoundTrip

NextCV ==
    \/ \E pg \in Pages : DoOpenContentPage(pg)
    \/ \E v \in ViewIds, index \in 0..(MaxPages - 1) : DoActivate(v, index)
    \/ \E v \in ViewIds, index \in -1..MaxPages, can_close \in BOOLEAN :
            DoClose(v, index, can_close)
    \/ \E pg \in Pages, can_close \in BOOLEAN :
            DoContentPageClose(pg, can_close)
    \/ \E v \in ViewIds, left, current, right \in BOOLEAN,
          vetoers \in Vetoers(Pages) :
            DoCloseMultiple(v, left, current, right, vetoers)
    \/ \E vetoers \in Vetoers(Pages) : DoCloseAll(vetoers)
    \/ \E v \in ViewIds, index \in 0..(MaxPages - 1),
          orientation \in Orientations :
            DoSplit(v, index, orientation)

Init == InitGroups /\ InitViews /\ InitProgress

NextAG ==
    \/ \E g \in Groups, imp \in BOOLEAN : AddAction(g, imp)
    \/ \E p \in Providers, g \in Groups : ShowActionGroup(p, g)
    \/ \E p \in Providers, g \in Groups, imp \in BOOLEAN :
            ShowAction(p, g, imp)

SpecAG == Init /\ [][NextAG]_vars

\* The groups of one provider.
NextAP ==
    \/ \E g \in Groups, imp \in BOOLEAN : AddAction(g, imp)
    \/ \E g \in Groups : ShowActionGroup("menu_file", g)
    \/ \E g \in Groups, imp \in BOOLEAN : ShowAction("menu_file", g, imp)

SpecAP == Init /\ [][NextAP]_vars

SpecCV == Init /\ [][NextCV]_vars

\* The tab views that Open, Activate and Split build, under CloseMultiple.
NextCM ==
    \/ \E pg \in Pages : DoOpenContentPage(pg)
    \/ \E v \in ViewIds, index \in 0..(MaxPages - 1) : DoActivate(v, index)
    \/ \E v \in ViewIds, index \in 0..(MaxPages - 1),
          orientation \in Orientations :
            DoSplit(v, index, orientation)
    \/ \E v \in ViewIds, left, current, right \in BOOLEAN,
          vetoers \in Vetoers(Pages) :
            DoCloseMultiple(v, left, current, right, vetoers)

SpecCM == Init /\ [][NextCM]_vars

\* The trees that Open, Activate and Split build, under the close of all.
NextCA ==
    \/ \E pg \in Pages : DoOpenContentPage(pg)
    \/ \E v \in ViewIds, index \in 0..(MaxPages - 1) : DoActivate(v, index)
    \/ \E v \in ViewIds, index \in 0..(MaxPages - 1),
          orientation \in Orientations :
            DoSplit(v, index, orientation)
    \/ \E vetoers \in Vetoers(Pages) : DoCloseAll(vetoers)

SpecCA == Init /\ [][NextCA]_vars

\* The trees that Open, Activate and Split build, under the close of a tab.
NextSC ==
    \/ \E pg \in Pages : DoOpenContentPage(pg)
    \/ \E v \in ViewIds, index \in 0..(MaxPages - 1) : DoActivate(v, index)
    \/ \E v \in ViewIds, index \in 0..(MaxPages - 1),
          orientation \in Orientations :
            DoSplit(v, index, orientation)
    \/ \E v \in ViewIds, index \in -1..MaxPages, can_close \in BOOLEAN :
            DoClose(v, index, can_close)

SpecSC == Init /\ [][NextSC]_vars

\* The tasks and their monitor, which reports to the notifier; the tasks
\* need no event queue.
NextPM ==
    \/ \E notifier \in {"nullptr", "notifier"} : NewProgressMonitor(notifier)
    \/ \E t \in Tasks : TaskStart(t, FALSE)
    \/ \E t \in Tasks, ok \in BOOLEAN : TaskRun(t, ok)
    \/ \E t \in Tasks : TaskFinish(t)
    \/ \E t \in Tasks : ThreadFinished(t)
    \/ \E t \in Tasks : HandleEnable(t)
    \/ \E t \in Tasks : HandleDisable(t)
    \/ \E t \in Tasks : HandleReportError(t)
    \/ \E t \in Tasks : HandleDeleteLater(t)

SpecPM == Init /\ [][NextPM]_vars

\* The running tasks and the values their units of work set.
NextTV ==
    \/ \E notifier \in {"nullptr", "notifier"} : NewProgressMonitor(notifier)
    \/ \E t \in Tasks, needs_event_queue \in BOOLEAN :
            TaskStart(t, needs_event_queue)
    \/ \E t \in Tasks, v \in ValueInputs : SetValue(t, v)
    \/ \E t \in Tasks : HandleEnable(t)
    \/ \E t \in Tasks : HandleUpdateTasks(t)

SpecTV == Init /\ [][NextTV]_vars

\* The notifier and the notifications the client shows and closes.
NextNF ==
    \/ \E n \in Notifications : DoShow(n)
    \/ \E n \in Notifications : DoNotificationClose(n)

SpecNF == Init /\ [][NextNF]_vars

\* The notifier, the client's notifications and their actions.
NextNA ==
    \/ \E n \in Notifications : DoShow(n)
    \/ \E n \in Notifications : DoNotificationClose(n)
    \/ \E n \in Notifications, action \in Names : DoActivateAction(n, action)
    \/ \E action \in Names : DoActivateNotificationAction(action)

SpecNA == Init /\ [][NextNA]_vars

\* The life of the tasks in a monitor that has no notifier; every second
\* task needs an event queue.
NextTL ==
    \/ NewProgressMonitor("nullptr")
    \/ \E t \in Tasks : TaskStart(t, t % 2 = 0)
    \/ \E t \in Tasks, ok \in BOOLEAN : TaskRun(t, ok)
    \/ \E t \in Tasks : TaskFinish(t)
    \/ \E t \in Tasks : Quit(t)
    \/ \E t \in Tasks : ThreadFinished(t)
    \/ \E t \in Tasks : HandleEnable(t)
    \/ \E t \in Tasks : HandleDisable(t)
    \/ \E t \in Tasks : HandleReportError(t)
    \/ \E t \in Tasks : HandleDeleteLater(t)

SpecTL == Init /\ [][NextTL]_vars

\* A thread whose work has returned goes on, and the main thread's event
\* loop handles what is queued; nothing makes a unit of work return or the
\* client call quit(). Every one of these steps is taken at most once for a
\* task, so fairness for them together is fairness for each.
Progress ==
    \E t \in Tasks :
        \/ TaskFinish(t)
        \/ ThreadFinished(t)
        \/ HandleEnable(t)
        \/ HandleDisable(t)
        \/ HandleReportError(t)
        \/ HandleDeleteLater(t)

SpecTLFair == SpecTL /\ WF_vars(Progress)

=============================================================================
